---- MODULE Spec2Model ----
(***************************************************************************)
(* Skeletal skinning engine of spatial-webrtc-test: Bone, Skeleton,        *)
(* PoseIllustration, MathUtils and the frame driver.                       *)
(*                                                                         *)
(* Numbers.  The program computes with IEEE doubles.  The model computes   *)
(* with exact rationals extended by the three special values of a double:  *)
(* a number is a pair <<n, d>> in lowest terms, d > 0 for a finite value,  *)
(* <<1,0>> for +Infinity, <<-1,0>> for -Infinity and <<0,0>> for NaN.      *)
(* Rounding is not modelled; division by zero, 0/0 and NaN propagation     *)
(* are.  A point is a record [x, y] of two numbers (paper.Point).          *)
(***************************************************************************)
EXTENDS Integers, Sequences, FiniteSets, TLC

VARIABLES skeleton, paths, drawData, canvas, pc, threw, frames, driver, arg, ret, page

vars == <<skeleton, paths, drawData, canvas, pc, threw, frames, driver, arg, ret, page>>

-----------------------------------------------------------------------------
(* Extended rational arithmetic (IEEE special values, no rounding).        *)

Abs(i) == IF i < 0 THEN -i ELSE i

Sign(i) == IF i > 0 THEN 1 ELSE IF i < 0 THEN -1 ELSE 0

RECURSIVE GCD(_, _)
GCD(a, b) == IF b = 0 THEN a ELSE GCD(b, a % b)

R(n, d) ==
  IF d = 0 THEN <<Sign(n), 0>>
  ELSE LET g == GCD(Abs(n), Abs(d))
           s == IF d < 0 THEN -1 ELSE 1
       IN  <<s * (n \div g), s * (d \div g)>>

Num(n) == <<n, 1>>

Zero == <<0, 1>>

One == <<1, 1>>

NaN == <<0, 0>>

Infinity == <<1, 0>>

IsNaN(a) == a = NaN

RNeg(a) == <<-a[1], a[2]>>

RAdd(a, b) ==
  IF IsNaN(a) \/ IsNaN(b) THEN NaN
  ELSE IF a[2] = 0 /\ b[2] = 0 THEN (IF a[1] = b[1] THEN a ELSE NaN)
  ELSE IF a[2] = 0 THEN a
  ELSE IF b[2] = 0 THEN b
  ELSE LET g == GCD(a[2], b[2])
       IN  R(a[1] * (b[2] \div g) + b[1] * (a[2] \div g), (a[2] \div g) * b[2])

RSub(a, b) == RAdd(a, RNeg(b))

RMul(a, b) ==
  IF IsNaN(a) \/ IsNaN(b) THEN NaN
  ELSE IF a[2] = 0 \/ b[2] = 0
       THEN (IF a[1] = 0 \/ b[1] = 0 THEN NaN ELSE <<Sign(a[1]) * Sign(b[1]), 0>>)
  ELSE LET g1 == GCD(Abs(a[1]), b[2])
           g2 == GCD(Abs(b[1]), a[2])
       IN  R((a[1] \div g1) * (b[1] \div g2), (a[2] \div g2) * (b[2] \div g1))

\* a / b as a double divides: x/0 is +-Infinity, 0/0 and Inf/Inf are NaN, x/Inf is 0.
RDiv(a, b) ==
  IF IsNaN(a) \/ IsNaN(b) THEN NaN
  ELSE IF b[2] = 0 THEN (IF a[2] = 0 THEN NaN ELSE Zero)
  ELSE IF b[1] = 0 THEN (IF a[1] = 0 THEN NaN ELSE <<Sign(a[1]), 0>>)
  ELSE IF a[2] = 0 THEN <<Sign(a[1]) * Sign(b[1]), 0>>
  ELSE RMul(a, R(b[2] * Sign(b[1]), Abs(b[1])))

\* a < b; every comparison with NaN is false.
RLt(a, b) ==
  IF IsNaN(a) \/ IsNaN(b) THEN FALSE
  ELSE IF a[2] = 0 \/ b[2] = 0
       THEN (IF a[2] = 0 /\ b[2] = 0 THEN a[1] < b[1]
             ELSE IF a[2] = 0 THEN a[1] < 0 ELSE b[1] > 0)
  ELSE RSub(a, b)[1] < 0

\* a <= b
RLe(a, b) == RLt(a, b) \/ (~IsNaN(a) /\ ~IsNaN(b) /\ a = b)

RAbs(a) == <<Abs(a[1]), a[2]>>

\* Math.min: NaN if either argument is NaN.
RMin(a, b) == IF IsNaN(a) \/ IsNaN(b) THEN NaN ELSE IF RLt(b, a) THEN b ELSE a

RECURSIVE ISqrtFrom(_, _, _)
ISqrtFrom(n, lo, hi) ==
  IF lo >= hi THEN lo
  ELSE IF (lo + hi + 1) \div 2 <= n \div ((lo + hi + 1) \div 2)
       THEN ISqrtFrom(n, (lo + hi + 1) \div 2, hi)
       ELSE ISqrtFrom(n, lo, (lo + hi + 1) \div 2 - 1)

\* floor of the square root of a natural number
ISqrt(n) == IF n <= 0 THEN 0 ELSE ISqrtFrom(n, 1, n)

\* Math.sqrt: exact on the squares of rationals, which is where the model's
\* inputs keep it; any other argument is rounded down to a whole number.
RSqrt(a) ==
  IF IsNaN(a) THEN NaN
  ELSE IF a[2] = 0 THEN (IF a[1] > 0 THEN Infinity ELSE NaN)
  ELSE IF a[1] < 0 THEN NaN
  ELSE IF ISqrt(a[1]) * ISqrt(a[1]) = a[1] /\ ISqrt(a[2]) * ISqrt(a[2]) = a[2]
  THEN <<ISqrt(a[1]), ISqrt(a[2])>>
  ELSE <<ISqrt(a[1] \div a[2]), 1>>

-----------------------------------------------------------------------------
(* paper.Point                                                             *)

Pt(x, y) == [x |-> x, y |-> y]

IPt(i, j) == Pt(Num(i), Num(j))

add(p, q) == Pt(RAdd(p.x, q.x), RAdd(p.y, q.y))

subtract(p, q) == Pt(RSub(p.x, q.x), RSub(p.y, q.y))

multiply(p, s) == Pt(RMul(p.x, s), RMul(p.y, s))

divide(p, s) == Pt(RDiv(p.x, s), RDiv(p.y, s))

dot(p, q) == RAdd(RMul(p.x, q.x), RMul(p.y, q.y))

\* Point.length = sqrt(x*x + y*y); for a vector along an axis this is |x| or |y|.
length(p) ==
  IF IsNaN(p.x) \/ IsNaN(p.y) THEN NaN
  ELSE IF p.y = Zero THEN RAbs(p.x)
  ELSE IF p.x = Zero THEN RAbs(p.y)
  ELSE RSqrt(dot(p, p))

\* Point.normalize() of a point whose length is current:
\* scale = current !== 0 ? 1 / current : 0
normalizeBy(p, current) == multiply(p, IF current = Zero THEN Zero ELSE RDiv(One, current))

\* Point.normalize()
normalize(p) == normalizeBy(p, length(p))

\* n.angle += 90: the vector turned by a quarter turn, (x, y) -> (-y, x).
rotate90(p) == Pt(RNeg(p.y), p.x)

\* The square of p.getDistance(q).
getDistanceSq(p, q) == dot(subtract(p, q), subtract(p, q))

\* anchor.add(dir.multiply(x)).add(n.multiply(y)), n being dir turned by 90
offset(anchor, dir, x, y) == add(add(anchor, multiply(dir, x)), multiply(rotate90(dir), y))

-----------------------------------------------------------------------------
(* MathUtils                                                               *)

Undefined == <<0, -1>>

UndefPt == Pt(Undefined, Undefined)

NoFunc == [def |-> FALSE, x |-> Undefined, y |-> Undefined, l0 |-> Undefined]

\* MathUtils.getTransformFunc(p0, p1, p): the x, y and l0 its closure captures
getTransformFunc(p0, p1, p) ==
  [def |-> TRUE,
   x |-> dot(subtract(p, p0), normalize(subtract(p1, p0))),
   y |-> dot(subtract(p, p0), rotate90(normalize(subtract(p1, p0)))),
   l0 |-> length(subtract(p1, p0))]

\* The closure f called with p0New and d = p1New - p0New of length len
applyAlong(f, p0New, d, len) ==
  IF len = Zero THEN p0New
  ELSE offset(p0New, normalizeBy(d, len), RMul(f.x, RDiv(len, f.l0)), RMul(f.y, RDiv(len, f.l0)))

\* The closure returned by getTransformFunc, called with (p0New, p1New).
applyTransformFunc(f, p0New, p1New) ==
  applyAlong(f, p0New, subtract(p1New, p0New), length(subtract(p1New, p0New)))

\* The point of the segment from p0 along d at parameter c, clamped to its ends
clamp(p0, p1, d, c) ==
  IF RLe(One, c) THEN p1
  ELSE IF RLe(c, Zero) THEN p0
  ELSE add(p0, multiply(d, c))

\* MathUtils.getClosestPointOnSegment(p0, p1, p)
getClosestPointOnSegment(p0, p1, p) ==
  clamp(p0, p1, subtract(p1, p0),
        RDiv(dot(subtract(p, p0), subtract(p1, p0)), dot(subtract(p1, p0), subtract(p1, p0))))

\* MathUtils.isCollinear(v0, v1, threshold = 0.01)
isCollinear(v0, v1) ==
  RLt(RSub(One, R(1, 100)), RAbs(dot(normalize(v0), normalize(v1))))

-----------------------------------------------------------------------------
(* The character asset: the keypoints of its skeleton group.  The face is  *)
(* cut down to the six keypoints the update reads by name (the jaw corners *)
(* and the nose bone) and the three bones between them.                    *)

posePartNames ==
  <<"leftHip", "leftWrist", "leftElbow", "leftShoulder", "rightHip",
    "rightWrist", "rightElbow", "rightShoulder", "leftEar", "rightEar">>

facePartNames == <<"rightJaw2", "rightJaw3", "leftJaw3", "leftJaw2", "nose3", "nose4">>

allPartNames ==
  posePartNames \o facePartNames \o <<"leftKnee", "leftAnkle", "rightKnee", "rightAnkle">>

Range(f) == {f[i] : i \in DOMAIN f}

\* Where the tracked subject stands when it holds the asset's pose: the oracles'
\* keypoints before any movement (the two ears are pose keypoints only).
subject ==
  [n \in Range(allPartNames) |->
     CASE n = "leftShoulder"  -> IPt(40, 0)
       [] n = "rightShoulder" -> IPt(0, 0)
       [] n = "leftHip"       -> IPt(40, 60)
       [] n = "rightHip"      -> IPt(0, 60)
       [] n = "leftElbow"     -> IPt(60, 0)
       [] n = "leftWrist"     -> IPt(80, 0)
       [] n = "rightElbow"    -> IPt(-20, 0)
       [] n = "rightWrist"    -> IPt(-40, 0)
       [] n = "leftKnee"      -> IPt(40, 160)
       [] n = "leftAnkle"     -> IPt(40, 260)
       [] n = "rightKnee"     -> IPt(0, 160)
       [] n = "rightAnkle"    -> IPt(0, 260)
       [] n = "leftJaw2"      -> IPt(32, -36)
       [] n = "leftJaw3"      -> IPt(32, -20)
       [] n = "rightJaw2"     -> IPt(8, -36)
       [] n = "rightJaw3"     -> IPt(8, -20)
       [] n = "nose3"         -> IPt(20, -28)
       [] n = "nose4"         -> IPt(20, -20)
       [] n = "leftEar"       -> IPt(30, -36)
       [] n = "rightEar"      -> IPt(10, -36)]

\* getKeyPointFromSVG: shape.bounds.center of the item named partName (kp.position).
position == [n \in Range(allPartNames) \ {"leftEar", "rightEar"} |-> subject[n]]

\* new Bone(kp0, kp1, skeleton, type): name = `${kp0.name}-${kp1.name}`.  p0 and p1
\* are kp0.position and kp1.position; sec is 0 for a bone of skeleton.bones and
\* the bone's index in skeleton.secondaryBones otherwise; parent is the index in
\* skeleton.bones of a secondary bone's parent, and transformFunc0/1 are
\* kp0.transformFunc and kp1.transformFunc (set by bindGroup).
Bone(kp0, kp1, type) ==
  [name |-> kp0 \o "-" \o kp1, kp0 |-> kp0, kp1 |-> kp1, type |-> type,
   p0 |-> position[kp0], p1 |-> position[kp1], sec |-> 0,
   parent |-> 0, transformFunc0 |-> NoFunc, transformFunc1 |-> NoFunc]

faceBones ==
  <<Bone("leftJaw2", "leftJaw3", "face"),
    Bone("rightJaw2", "rightJaw3", "face"),
    Bone("nose3", "nose4", "face")>>

bodyBones ==
  <<Bone("leftShoulder", "rightShoulder", "body"),
    Bone("rightShoulder", "rightHip", "body"),
    Bone("leftHip", "rightHip", "body"),
    Bone("leftShoulder", "leftHip", "body"),
    Bone("leftShoulder", "leftElbow", "body"),
    Bone("leftElbow", "leftWrist", "body"),
    Bone("rightShoulder", "rightElbow", "body"),
    Bone("rightElbow", "rightWrist", "body"),
    Bone("leftHip", "leftKnee", "body"),
    Bone("leftKnee", "leftAnkle", "body"),
    Bone("rightHip", "rightKnee", "body"),
    Bone("rightKnee", "rightAnkle", "body")>>

\* this.boneGroups, of the body bones bb and the face bones fb
boneGroups(fb, bb) ==
  [torso    |-> SubSeq(bb, 1, 4),
   leftLeg  |-> SubSeq(bb, 9, 10),
   rightLeg |-> SubSeq(bb, 11, 12),
   leftArm  |-> SubSeq(bb, 5, 6),
   rightArm |-> <<bb[8], bb[7]>>,
   face     |-> fb]

RECURSIVE SumLen(_, _, _)
SumLen(bs, cur, i) ==
  IF i > Len(bs) THEN Zero
  ELSE RAdd(length(subtract(cur[bs[i].kp0], cur[bs[i].kp1])), SumLen(bs, cur, i + 1))

\* Skeleton.getTotalBoneLength(bones), cur the keypoints' currentPosition
getTotalBoneLength(bs, cur) == SumLen(bs, cur, 1)

MIN_POSE_SCORE == R(1, 10)

MIN_FACE_SCORE == R(8, 10)

kneeDistance == 100

ankleDistance == 100

KeyPointNamesOf(bs) == {bs[i].kp0 : i \in DOMAIN bs} \cup {bs[i].kp1 : i \in DOMAIN bs}

BoneNamesOf(bs) == {bs[i].name : i \in DOMAIN bs}

NoPart == [has |-> FALSE, position |-> UndefPt, score |-> Undefined]

Part(pos, score) == [has |-> TRUE, position |-> pos, score |-> score]

\* new Skeleton(scope) with face bones fb and body bones bb at positions pos.
\* bones, faceBones, bodyBones, boneGroups, bodyLen0, faceLen0 and baseTransFunc
\* (part.baseTransFunc of each face keypoint) are set once; secondaryBones are
\* the bones bindGroup adds; parts is this.parts; cur, score and latestCenter
\* are the currentPosition of each keypoint and the score and latestCenter of
\* each bone; sec holds the same for the secondary bones.
Skeleton(fb, bb, pos) ==
  [bones |-> fb \o bb,
   faceBones |-> fb,
   bodyBones |-> bb,
   bNose3Nose4 |-> fb[3],
   secondaryBones |-> <<>>,
   bodyLen0 |-> getTotalBoneLength(bb, pos),
   faceLen0 |-> getTotalBoneLength(fb, pos),
   boneGroups |-> boneGroups(fb, bb),
   baseTransFunc |-> [n \in KeyPointNamesOf(fb) |->
                        getTransformFunc(pos[fb[1].kp0], pos[fb[2].kp0], pos[n])],
   parts |-> [n \in Range(allPartNames) |-> NoPart],
   cur |-> [n \in KeyPointNamesOf(fb \o bb) |-> pos[n]],
   score |-> [n \in BoneNamesOf(fb \o bb) |-> Undefined],
   latestCenter |-> [n \in BoneNamesOf(fb \o bb) |-> UndefPt],
   sec |-> <<>>,
   currentFaceScale |-> Undefined,
   currentBodyScale |-> Undefined,
   isValid |-> FALSE,
   leftEarP2FFunc |-> NoFunc,
   rightEarP2FFunc |-> NoFunc]

\* The first bone, in the order the constructor makes them, that has an
\* endpoint getKeyPointFromSVG did not find among the items present (0 if none)
RECURSIVE missingBone(_, _, _)
missingBone(bs, present, i) ==
  IF i > Len(bs) THEN 0
  ELSE IF bs[i].kp0 \notin present \/ bs[i].kp1 \notin present THEN i
  ELSE missingBone(bs, present, i + 1)

\* new Skeleton(scope) that makes every bone whatever its endpoints
constructUnchecked(present) ==
  [threw |-> FALSE, error |-> "", skeleton |-> Skeleton(faceBones, bodyBones, position)]

\* new Skeleton(scope) on an asset whose skeleton group holds the keypoints
\* present: the exception a Bone constructor threw, or the skeleton made
construct(present) ==
  IF missingBone(bodyBones \o faceBones, present, 1) = 0
  THEN [threw |-> FALSE, error |-> "", skeleton |-> Skeleton(faceBones, bodyBones, position)]
  ELSE [threw |-> TRUE,
        error |-> "Missing a bone point when constructing a bone of type "
                    \o (bodyBones \o faceBones)[missingBone(bodyBones \o faceBones, present, 1)].type,
        skeleton |-> <<>>]

-----------------------------------------------------------------------------
(* Skeleton                                                                *)

\* getPartFromPose(pose, name): pose.keypoints.find((kp) => kp.part === name)
getPartFromPose(pose, name) ==
  LET hits == {i \in DOMAIN pose.keypoints : pose.keypoints[i].part = name}
  IN  IF hits = {} THEN NoPart
      ELSE LET kp == pose.keypoints[CHOOSE i \in hits : \A j \in hits : i <= j]
           IN  Part(kp.position, kp.score)

\* getKeypointFromFaceFrame(face, i), i counted from 0
getKeypointFromFaceFrame(face, i) == Pt(face.positions[2 * i + 1], face.positions[2 * i + 2])

\* The new entry of this.parts from part0 and part1 and their weights
weighted(part0, part1, weight0, weight1) ==
  Part(add(multiply(part0.position, weight0), multiply(part1.position, weight1)),
       RAdd(RMul(part0.score, weight0), RMul(part1.score, weight1)))

\* The fusion with both weights one half
blendEvenly(part0, part1) == weighted(part0, part1, R(1, 2), R(1, 2))

\* The fusion continued past part1: twice part1 less part0
blendExtrapolated(part0, part1) == weighted(part0, part1, RNeg(One), Num(2))

\* updatePoseParts' callback from "let weight0" on
blend(part0, part1) ==
  weighted(part0, part1, RDiv(part0.score, RAdd(part1.score, part0.score)),
           RDiv(part1.score, RAdd(part1.score, part0.score)))

\* The body of the forEach callback of updatePoseParts for one part name:
\* stored is this.parts[partName], part1 the pose's keypoint.
fusePart(stored, part1) ==
  IF ~part1.has THEN stored
  ELSE blend(IF stored.has THEN stored ELSE part1, part1)

\* A knee or an ankle dy under its hip
below(hip, dy) == Part(add(hip.position, IPt(0, dy)), hip.score)

\* updatePoseParts from "let leftHip" on, this.parts being fused
pinLegs(s, fused) ==
  IF ~fused["leftHip"].has
  THEN [s |-> [s EXCEPT !.parts = fused], threw |-> TRUE, ret |-> FALSE]
  ELSE IF ~fused["rightHip"].has
  THEN [s |-> [s EXCEPT !.parts =
                  [fused EXCEPT
                     !["leftKnee"] = below(fused["leftHip"], kneeDistance),
                     !["leftAnkle"] = below(fused["leftHip"], kneeDistance + ankleDistance)]],
        threw |-> TRUE, ret |-> FALSE]
  ELSE [s |-> [s EXCEPT !.parts =
                  [fused EXCEPT
                     !["leftKnee"] = below(fused["leftHip"], kneeDistance),
                     !["leftAnkle"] = below(fused["leftHip"], kneeDistance + ankleDistance),
                     !["rightKnee"] = below(fused["rightHip"], kneeDistance),
                     !["rightAnkle"] = below(fused["rightHip"], kneeDistance + ankleDistance)]],
        threw |-> FALSE,
        ret |-> fused["rightEar"].has /\ fused["leftEar"].has]

\* Skeleton.updatePoseParts(pose) on skeleton s: the skeleton it leaves, whether
\* it threw (reading .position of an undefined hip) and, if not, what it returned.
updatePoseParts(s, pose) ==
  pinLegs(s, [n \in DOMAIN s.parts |->
                IF n \in Range(posePartNames)
                THEN fusePart(s.parts[n], getPartFromPose(pose, n))
                ELSE s.parts[n]])

RECURSIVE setFaceParts(_, _, _)
setFaceParts(parts, face, i) ==
  IF i >= Len(facePartNames) THEN parts
  ELSE setFaceParts([parts EXCEPT ![facePartNames[i + 1]] =
                       Part(getKeypointFromFaceFrame(face, i), face.faceInViewConfidence)],
                    face, i + 1)

\* The "Valid face results" branch of updateFaceParts, parts1 being this.parts
\* after its loop
trackFace(s, parts1) ==
  [s EXCEPT !.parts = parts1,
            !.leftEarP2FFunc =
               getTransformFunc(s.parts["leftEar"].position, s.parts["rightEar"].position,
                                parts1["leftJaw2"].position),
            !.rightEarP2FFunc =
               getTransformFunc(s.parts["leftEar"].position, s.parts["rightEar"].position,
                                parts1["rightJaw2"].position)]

\* The "Infer face keypoints from pose" branch from "Also infer face scale" on
inferFace(s, fLeftEar, fRightEar) ==
  [s EXCEPT !.currentFaceScale = s.currentBodyScale,
            !.parts = [n \in DOMAIN s.parts |->
                         IF n \in DOMAIN s.baseTransFunc
                         THEN Part(applyTransformFunc(s.baseTransFunc[n], fLeftEar, fRightEar), One)
                         ELSE s.parts[n]]]

\* The pose's ear taken whether or not a transform has been recorded
earOrPose(f, posLeftEar, posRightEar, pos) == pos

\* this.leftEarP2FFunc ? this.leftEarP2FFunc(posLeftEar, posRightEar) : posLeftEar
earOr(f, posLeftEar, posRightEar, pos) ==
  IF f.def THEN applyTransformFunc(f, posLeftEar, posRightEar) ELSE pos

\* Skeleton.updateFaceParts taking a face at MIN_FACE_SCORE as valid
updateFacePartsInclusive(s, face) ==
  IF face.def /\ Len(face.positions) # 0 /\ RLe(MIN_FACE_SCORE, face.faceInViewConfidence)
  THEN trackFace(s, setFaceParts(s.parts, face, 0))
  ELSE inferFace(s,
         earOr(s.leftEarP2FFunc, s.parts["leftEar"].position, s.parts["rightEar"].position,
               s.parts["leftEar"].position),
         earOr(s.rightEarP2FFunc, s.parts["leftEar"].position, s.parts["rightEar"].position,
               s.parts["rightEar"].position))

\* Skeleton.updateFaceParts(face) on skeleton s; face.def is false for a null face.
updateFaceParts(s, face) ==
  IF face.def /\ Len(face.positions) # 0 /\ RLt(MIN_FACE_SCORE, face.faceInViewConfidence)
  THEN trackFace(s, setFaceParts(s.parts, face, 0))
  ELSE inferFace(s,
         earOr(s.leftEarP2FFunc, s.parts["leftEar"].position, s.parts["rightEar"].position,
               s.parts["leftEar"].position),
         earOr(s.rightEarP2FFunc, s.parts["leftEar"].position, s.parts["rightEar"].position,
               s.parts["rightEar"].position))

\* The "Update bones" loop of Skeleton.update from bone i on; it throws when it
\* reads .position of a part that is not in this.parts.
RECURSIVE refreshBones(_, _)
refreshBones(s, i) ==
  IF i > Len(s.bones) THEN [s |-> s, threw |-> FALSE]
  ELSE IF ~s.parts[s.bones[i].kp0].has THEN [s |-> s, threw |-> TRUE]
  ELSE IF ~s.parts[s.bones[i].kp1].has
  THEN [s |-> [s EXCEPT !.cur[s.bones[i].kp0] = s.parts[s.bones[i].kp0].position],
        threw |-> TRUE]
  ELSE refreshBones(
         [s EXCEPT
            !.cur[s.bones[i].kp0] = s.parts[s.bones[i].kp0].position,
            !.cur[s.bones[i].kp1] = s.parts[s.bones[i].kp1].position,
            !.score[s.bones[i].name] =
               RDiv(RAdd(s.parts[s.bones[i].kp0].score, s.parts[s.bones[i].kp1].score), Num(2)),
            !.latestCenter[s.bones[i].name] =
               divide(add(s.parts[s.bones[i].kp1].position, s.parts[s.bones[i].kp0].position),
                      Num(2))],
         i + 1)

\* bone.kp0.currentPosition and bone.kp1.currentPosition in skeleton s
kp0Cur(s, bone) == IF bone.sec = 0 THEN s.cur[bone.kp0] ELSE s.sec[bone.sec].cur0

kp1Cur(s, bone) == IF bone.sec = 0 THEN s.cur[bone.kp1] ELSE s.sec[bone.sec].cur1

\* What one pass of the "Update secondary bones" loop leaves of a secondary bone
secondaryAt(c0, c1, score) ==
  [cur0 |-> c0, cur1 |-> c1, score |-> score, latestCenter |-> divide(add(c1, c0), Num(2))]

\* The "Update secondary bones" loop of Skeleton.update
refreshSecondary(s, nosePos) ==
  [s EXCEPT !.sec =
     [k \in DOMAIN s.secondaryBones |->
        secondaryAt(applyTransformFunc(s.secondaryBones[k].transformFunc0,
                                       s.cur[s.bones[s.secondaryBones[k].parent].kp0], nosePos),
                    applyTransformFunc(s.secondaryBones[k].transformFunc1,
                                       s.cur[s.bones[s.secondaryBones[k].parent].kp1], nosePos),
                    s.score[s.bones[s.secondaryBones[k].parent].name])]]

\* The end of Skeleton.update recomputing the body's scale only, the face's
\* left as updateFaceParts set it
recomputeScaleBodyOnly(s) ==
  [s |-> [s EXCEPT !.currentBodyScale = RDiv(getTotalBoneLength(s.bodyBones, s.cur), s.bodyLen0),
                   !.isValid = TRUE],
   threw |-> FALSE]

\* "Recompute face & body bone scale" and the end of Skeleton.update
recomputeScale(s) ==
  [s |-> [s EXCEPT !.currentFaceScale = RDiv(getTotalBoneLength(s.faceBones, s.cur), s.faceLen0),
                   !.currentBodyScale = RDiv(getTotalBoneLength(s.bodyBones, s.cur), s.bodyLen0),
                   !.isValid = TRUE],
   threw |-> FALSE]

\* The bones' scores left as the sum of the endpoints' scores
afterBonesSummed(rb) ==
  IF rb.threw THEN rb
  ELSE recomputeScale(refreshSecondary(
         [rb.s EXCEPT !.score = [n \in DOMAIN @ |-> RMul(@[n], Num(2))]],
         rb.s.cur[rb.s.bNose3Nose4.kp1]))

\* Skeleton.update after the "Update bones" loop, rb what the loop left
afterBones(rb) ==
  IF rb.threw THEN rb
  ELSE recomputeScale(refreshSecondary(rb.s, rb.s.cur[rb.s.bNose3Nose4.kp1]))

\* Skeleton.update with an updatePoseParts that returns true without looking
\* at the ears: isValid is set and updateFaceParts throws on the missing ear
afterPosePartsUnchecked(pp, face) ==
  IF pp.threw THEN [s |-> pp.s, threw |-> TRUE]
  ELSE IF ~pp.ret THEN [s |-> [pp.s EXCEPT !.isValid = TRUE], threw |-> TRUE]
  ELSE afterBones(refreshBones(updateFaceParts([pp.s EXCEPT !.isValid = TRUE], face), 1))

\* Skeleton.update with the secondary bones refreshed from the parents as they
\* were before the "Update bones" loop
afterPosePartsStaleSecondary(pp, face) ==
  IF pp.threw THEN [s |-> pp.s, threw |-> TRUE]
  ELSE IF ~pp.ret THEN [s |-> [pp.s EXCEPT !.isValid = FALSE], threw |-> FALSE]
  ELSE IF refreshBones(updateFaceParts([pp.s EXCEPT !.isValid = TRUE], face), 1).threw
  THEN refreshBones(updateFaceParts([pp.s EXCEPT !.isValid = TRUE], face), 1)
  ELSE recomputeScale(
         [refreshBones(updateFaceParts([pp.s EXCEPT !.isValid = TRUE], face), 1).s
            EXCEPT !.sec = refreshSecondary(pp.s, pp.s.cur[pp.s.bNose3Nose4.kp1]).sec])

\* Skeleton.update after updatePoseParts, pp what it left
afterPoseParts(pp, face) ==
  IF pp.threw THEN [s |-> pp.s, threw |-> TRUE]
  ELSE IF ~pp.ret THEN [s |-> [pp.s EXCEPT !.isValid = FALSE], threw |-> FALSE]
  ELSE afterBones(refreshBones(updateFaceParts([pp.s EXCEPT !.isValid = TRUE], face), 1))

\* Skeleton.update with its gate on pose.score moved down to 0.01
updateGatedLower(s, pose, face) ==
  IF RLt(pose.score, R(1, 100))
  THEN [s |-> [s EXCEPT !.isValid = FALSE], threw |-> FALSE]
  ELSE afterPoseParts(updatePoseParts(s, pose), face)

\* Skeleton.update resetting both scales to 1 when the gate rejects the pose
updateResettingScales(s, pose, face) ==
  IF RLt(pose.score, MIN_POSE_SCORE)
  THEN [s |-> [s EXCEPT !.isValid = FALSE, !.currentFaceScale = One, !.currentBodyScale = One],
        threw |-> FALSE]
  ELSE afterPoseParts(updatePoseParts(s, pose), face)

\* Skeleton.update(pose, face) on skeleton s: the skeleton it leaves and whether
\* it threw a TypeError on the way.
update(s, pose, face) ==
  IF RLt(pose.score, MIN_POSE_SCORE)
  THEN [s |-> [s EXCEPT !.isValid = FALSE], threw |-> FALSE]
  ELSE afterPoseParts(updatePoseParts(s, pose), face)

-----------------------------------------------------------------------------
(* Bone                                                                    *)

\* getPointTransform with anchorPerc measured from kp1
pointTransformFromKp1(bone, p, dir, closestP) ==
  [transform |-> Pt(dot(subtract(p, closestP), dir), dot(subtract(p, closestP), rotate90(dir))),
   anchorPerc |-> RDiv(length(subtract(closestP, bone.p1)), length(subtract(bone.p0, bone.p1)))]

\* Bone.getPointTransform(p) from "let v" on
pointTransform(bone, p, dir, closestP) ==
  [transform |-> Pt(dot(subtract(p, closestP), dir), dot(subtract(p, closestP), rotate90(dir))),
   anchorPerc |-> RDiv(length(subtract(closestP, bone.p0)), length(subtract(bone.p0, bone.p1)))]

\* Bone.getPointTransform(p)
getPointTransform(bone, p) ==
  pointTransform(bone, p, normalize(subtract(bone.p1, bone.p0)),
                 getClosestPointOnSegment(bone.p0, bone.p1, p))

\* Bone.transform with the scale left out
transformUnscaled(c0, c1, scale0, t) ==
  offset(add(multiply(c0, RSub(One, t.anchorPerc)), multiply(c1, t.anchorPerc)),
         normalize(subtract(c1, c0)), t.transform.x, t.transform.y)

\* Bone.transform(transform) from the endpoints' current positions c0 and c1 and
\* the skeleton's scale for the bone's type (scale0, possibly undefined).
transformAt(c0, c1, scale0, t) ==
  offset(add(multiply(c0, RSub(One, t.anchorPerc)), multiply(c1, t.anchorPerc)),
         normalize(subtract(c1, c0)),
         RMul(t.transform.x, IF scale0 = Undefined THEN One ELSE scale0),
         RMul(t.transform.y, IF scale0 = Undefined THEN One ELSE scale0))

\* Bone.transform(transform) of a bone of skeleton s
transform(s, bone, t) ==
  transformAt(kp0Cur(s, bone), kp1Cur(s, bone),
              IF bone.type = "face" THEN s.currentFaceScale ELSE s.currentBodyScale, t)

-----------------------------------------------------------------------------
(* PoseIllustration.bindGroup, Skeleton.findBoneGroup and the binder       *)

\* The auxiliary group of the asset's illustration: the items bindGroup finds in
\* it that are named after a part (item.bounds.center of each).
auxKeypoints == [leftJaw2 |-> IPt(36, -36), leftJaw3 |-> IPt(36, -20)]

\* skeleton.bones.filter((bone) => keypoints[bone.kp0.name] && keypoints[bone.kp1.name]),
\* as indices into skeleton.bones
RECURSIVE parentBonesFrom(_, _, _)
parentBonesFrom(bs, keypoints, i) ==
  IF i > Len(bs) THEN <<>>
  ELSE IF bs[i].kp0 \in DOMAIN keypoints /\ bs[i].kp1 \in DOMAIN keypoints
       THEN <<i>> \o parentBonesFrom(bs, keypoints, i + 1)
       ELSE parentBonesFrom(bs, keypoints, i + 1)

\* bindGroup from "if (!parentBones.length)" to the concat
addSecondary(s, keypoints, parentBones) ==
  IF parentBones = <<>> THEN s
  ELSE [s EXCEPT
          !.secondaryBones = @ \o
             [k \in DOMAIN parentBones |->
                [name |-> s.bones[parentBones[k]].name,
                 kp0 |-> s.bones[parentBones[k]].kp0,
                 kp1 |-> s.bones[parentBones[k]].kp1,
                 type |-> s.bones[parentBones[k]].type,
                 p0 |-> keypoints[s.bones[parentBones[k]].kp0],
                 p1 |-> keypoints[s.bones[parentBones[k]].kp1],
                 sec |-> Len(s.secondaryBones) + k,
                 parent |-> parentBones[k],
                 transformFunc0 |->
                    getTransformFunc(s.bones[parentBones[k]].p0, s.bNose3Nose4.p1,
                                     keypoints[s.bones[parentBones[k]].kp0]),
                 transformFunc1 |->
                    getTransformFunc(s.bones[parentBones[k]].p1, s.bNose3Nose4.p1,
                                     keypoints[s.bones[parentBones[k]].kp1])]],
          !.sec = @ \o
             [k \in DOMAIN parentBones |->
                [cur0 |-> keypoints[s.bones[parentBones[k]].kp0],
                 cur1 |-> keypoints[s.bones[parentBones[k]].kp1],
                 score |-> Undefined, latestCenter |-> UndefPt]]]

\* What PoseIllustration.bindGroup(group, skeleton) does to the skeleton
bindGroup(s, keypoints) == addSecondary(s, keypoints, parentBonesFrom(s.bones, keypoints, 1))

\* The skeleton a new Skeleton(scope) and the binding of the illustration leave.
newSkeleton == bindGroup(Skeleton(faceBones, bodyBones, position), auxKeypoints)

\* The square of the distance from point to the bone's segment at rest:
\* getClosestPointOnSegment(kp0.position, kp1.position, point).getDistance(point),
\* squared.  The code compares these distances and uses them as d * d only.
segDistSq(bone, point) ==
  getDistanceSq(getClosestPointOnSegment(bone.p0, bone.p1, point), point)

RECURSIVE minOver(_, _, _, _)
minOver(bs, point, i, acc) ==
  IF i > Len(bs) THEN acc ELSE minOver(bs, point, i + 1, RMin(acc, segDistSq(bs[i], point)))

boneGroupKeys == <<"torso", "leftLeg", "rightLeg", "leftArm", "rightArm", "face">>

RECURSIVE minOfSeq(_, _, _)
minOfSeq(ds, i, acc) == IF i > Len(ds) THEN acc ELSE minOfSeq(ds, i + 1, RMin(acc, ds[i]))

RECURSIVE flatSelected(_, _, _, _)
flatSelected(groups, ds, m, i) ==
  IF i > Len(ds) THEN <<>>
  ELSE (IF RLe(ds[i], m) THEN groups[boneGroupKeys[i]] ELSE <<>>)
       \o flatSelected(groups, ds, m, i + 1)

\* findBoneGroup returning the first of the closest groups only
selectedFirst(groups, minDistances) ==
  groups[boneGroupKeys[CHOOSE i \in DOMAIN minDistances :
                         /\ minDistances[i] = minOfSeq(minDistances, 1, Infinity)
                         /\ \A j \in DOMAIN minDistances :
                               minDistances[j] = minOfSeq(minDistances, 1, Infinity) => i <= j]]

\* findBoneGroup from "let minDistance = Math.min(...)" on
selectedGroups(groups, minDistances) ==
  flatSelected(groups, minDistances, minOfSeq(minDistances, 1, Infinity), 1)

\* Skeleton.findBoneGroup(point) of skeleton s
findBoneGroup(s, point) ==
  selectedGroups(s.boneGroups,
                 [i \in DOMAIN boneGroupKeys |->
                    minOver(s.boneGroups[boneGroupKeys[i]], point, 1, Infinity)])

RECURSIVE sumValues(_, _)
sumValues(w, names) ==
  IF names = {} THEN Zero
  ELSE RAdd(w[CHOOSE x \in names : TRUE].value, sumValues(w, names \ {CHOOSE x \in names : TRUE}))

\* The bone that weights[name] holds after the first loop of getWeights: the
\* last bone of that name
boneNamed(bs, n) ==
  bs[CHOOSE i \in DOMAIN bs : bs[i].name = n /\ \A j \in DOMAIN bs : bs[j].name = n => j <= i]

\* The weights of getWeights before they are normalized: w = 1 / (d * d)
absoluteWeights(point, bs) ==
  [n \in BoneNamesOf(bs) |->
     [value |-> RDiv(One, segDistSq(boneNamed(bs, n), point)), bone |-> boneNamed(bs, n)]]

\* getWeights from "if (totalW === 0)" on
normalizeWeights(weights, totalW) ==
  IF totalW = Zero THEN [n \in {} |-> Zero]
  ELSE [n \in DOMAIN weights |->
          [value |-> RDiv(weights[n].value, totalW), bone |-> weights[n].bone]]

\* PoseIllustration.getWeights(point, bones): a map from bone name to {value, bone}
getWeights(point, bs) ==
  normalizeWeights(absoluteWeights(point, bs),
                   sumValues(absoluteWeights(point, bs), BoneNamesOf(bs)))

\* PoseIllustration.getSkinning(point, weights)
getSkinning(point, weights) ==
  [skinning |-> [n \in DOMAIN weights |->
                   [bone |-> weights[n].bone, weight |-> weights[n].value,
                    transform |-> getPointTransform(weights[n].bone, point)]],
   position |-> point,
   currentPosition |-> IPt(0, 0)]

NoBones == [def |-> FALSE, bones |-> <<>>]

\* bindPathToBones computing each handle's own weights, collinear or not
skinSegmentEach(seg, bs, collinear, weightsP) ==
  [point |-> getSkinning(seg.point, weightsP),
   handleIn |-> getSkinning(add(seg.handleIn, seg.point),
                            getWeights(add(seg.handleIn, seg.point), bs)),
   handleOut |-> getSkinning(add(seg.handleOut, seg.point),
                             getWeights(add(seg.handleOut, seg.point), bs))]

\* The segment bindPathToBones makes of path segment seg from "let segment" on
skinSegment(seg, bs, collinear, weightsP) ==
  [point |-> getSkinning(seg.point, weightsP),
   handleIn |-> getSkinning(add(seg.handleIn, seg.point),
                            IF collinear THEN weightsP
                            ELSE getWeights(add(seg.handleIn, seg.point), bs)),
   handleOut |-> getSkinning(add(seg.handleOut, seg.point),
                             IF collinear THEN weightsP
                             ELSE getWeights(add(seg.handleOut, seg.point), bs))]

\* The callback of path.segments.map from "let weightsP" on, bs being bones
bindTo(seg, bs) ==
  skinSegment(seg, bs, isCollinear(seg.handleIn, seg.handleOut), getWeights(seg.point, bs))

\* The segment bindPathToBones makes of path segment seg (point, handleIn,
\* handleOut); selectedBones.def is false when the argument is left out.
bindSegment(s, seg, selectedBones) ==
  bindTo(seg, IF selectedBones.def THEN selectedBones.bones ELSE findBoneGroup(s, seg.point))

\* PoseIllustration.bindPathToBones(path, selectedBones): the SkinnedPath pushed
bindPathToBones(s, path, selectedBones) ==
  [segments |-> [i \in DOMAIN path.segments |-> bindSegment(s, path.segments[i], selectedBones)],
   fillColor |-> path.fillColor, strokeColor |-> path.strokeColor,
   strokeWidth |-> path.strokeWidth, closed |-> path.closed,
   confidenceScore |-> Undefined]

Seg(p, hIn, hOut) == [point |-> p, handleIn |-> hIn, handleOut |-> hOut]

\* The paths of the asset's illustration group, in item order.
illustrationPaths ==
  <<[segments |-> <<Seg(IPt(70, 0), IPt(0, 0), IPt(0, 0))>>,
     fillColor |-> "red", strokeColor |-> "none", strokeWidth |-> 1, closed |-> FALSE],
    [segments |-> <<Seg(IPt(20, 30), IPt(-6, 0), IPt(6, 0)),
                    Seg(IPt(20, 40), IPt(12, 16), IPt(-12, -16))>>,
     fillColor |-> "blue", strokeColor |-> "black", strokeWidth |-> 2, closed |-> TRUE],
    [segments |-> <<Seg(IPt(46, 200), IPt(0, -5), IPt(5, 0))>>,
     fillColor |-> "none", strokeColor |-> "black", strokeWidth |-> 1, closed |-> FALSE]>>

\* The paths inside the auxiliary group.
auxPaths ==
  <<[segments |-> <<Seg(IPt(36, -28), IPt(0, 0), IPt(0, 0)),
                    Seg(IPt(38, -28), IPt(0, 0), IPt(0, 0))>>,
     fillColor |-> "brown", strokeColor |-> "none", strokeWidth |-> 1, closed |-> FALSE]>>

\* this.skinnedPaths after new PoseIllustration(skeleton, skeletonScope, scope),
\* s being the skeleton after bindGroup
PoseIllustration(s, ps, groupPaths) ==
  [i \in DOMAIN ps |-> bindPathToBones(s, ps[i], NoBones)]
  \o [i \in DOMAIN groupPaths |->
        bindPathToBones(s, groupPaths[i], [def |-> TRUE, bones |-> s.secondaryBones])]

newPaths == PoseIllustration(newSkeleton, illustrationPaths, auxPaths)

RECURSIVE sumPositions(_, _, _)
sumPositions(s, skinning, names) ==
  IF names = {} THEN IPt(0, 0)
  ELSE add(multiply(transform(s, skinning[CHOOSE x \in names : TRUE].bone,
                              skinning[CHOOSE x \in names : TRUE].transform),
                    skinning[CHOOSE x \in names : TRUE].weight),
           sumPositions(s, skinning, names \ {CHOOSE x \in names : TRUE}))

\* Skeleton.getCurrentPosition(segment) in skeleton s
getCurrentPosition(s, segment) == sumPositions(s, segment.skinning, DOMAIN segment.skinning)

\* bt.bone.score || 0, sc being bt.bone.score
scoreOr0(sc) == IF sc = Undefined \/ IsNaN(sc) \/ sc = Zero THEN Zero ELSE sc

RECURSIVE sumScores(_, _, _)
sumScores(s, skinning, names) ==
  IF names = {} THEN Zero
  ELSE RAdd(RMul(scoreOr0(IF skinning[CHOOSE x \in names : TRUE].bone.sec = 0
                          THEN s.score[skinning[CHOOSE x \in names : TRUE].bone.name]
                          ELSE s.sec[skinning[CHOOSE x \in names : TRUE].bone.sec].score),
                 skinning[CHOOSE x \in names : TRUE].weight),
            sumScores(s, skinning, names \ {CHOOSE x \in names : TRUE}))

\* The sum over the segments of getConfidenceScore(seg.point) of updateSkeleton
RECURSIVE sumSegScores(_, _, _)
sumSegScores(s, segs, i) ==
  IF i > Len(segs) THEN Zero
  ELSE RAdd(sumScores(s, segs[i].point.skinning, DOMAIN segs[i].point.skinning),
            sumSegScores(s, segs, i + 1))

\* A point or a handle whose new place is stored as its bind-time position too
repositionRebased(s, p) ==
  [p EXCEPT !.currentPosition = getCurrentPosition(s, p), !.position = getCurrentPosition(s, p)]

\* A point or a handle of a segment with its currentPosition recomputed
reposition(s, p) == [p EXCEPT !.currentPosition = getCurrentPosition(s, p)]

\* The skinnedPaths.forEach loop of updateSkeleton over the skinned paths ps
updatePaths(s, ps) ==
  [i \in DOMAIN ps |->
     [ps[i] EXCEPT
        !.confidenceScore =
           RDiv(sumSegScores(s, ps[i].segments, 1),
                Num(IF Len(ps[i].segments) = 0 THEN 1 ELSE Len(ps[i].segments))),
        !.segments =
           [j \in DOMAIN ps[i].segments |->
              [point |-> reposition(s, ps[i].segments[j].point),
               handleIn |-> reposition(s, ps[i].segments[j].handleIn),
               handleOut |-> reposition(s, ps[i].segments[j].handleOut)]]]]

\* updateSkeleton after this.skeleton.update, u what update left
afterUpdate(ps, u) ==
  IF u.threw \/ ~u.s.isValid THEN [s |-> u.s, paths |-> ps, threw |-> u.threw]
  ELSE [s |-> u.s, paths |-> updatePaths(u.s, ps), threw |-> FALSE]

\* PoseIllustration.updateSkeleton(pose, face) on skeleton s and paths ps
updateSkeleton(s, ps, pose, face) == afterUpdate(ps, update(s, pose, face))

\* PoseIllustration.draw(): the group it builds from the paths' current
\* positions (def is false for the undefined it returns on an invalid skeleton).
draw(s, ps) ==
  IF ~s.isValid THEN [def |-> FALSE, paths |-> <<>>, position |-> UndefPt]
  ELSE [def |-> TRUE,
        paths |-> [i \in DOMAIN ps |->
                     [closed |-> ps[i].closed,
                      segments |->
                        [j \in DOMAIN ps[i].segments |->
                           [point |-> ps[i].segments[j].point.currentPosition,
                            handleIn |->
                              subtract(ps[i].segments[j].handleIn.currentPosition,
                                       ps[i].segments[j].point.currentPosition),
                            handleOut |->
                              subtract(ps[i].segments[j].handleOut.currentPosition,
                                       ps[i].segments[j].point.currentPosition)]]]],
        position |-> UndefPt]

-----------------------------------------------------------------------------
(* The oracles' results.  A pose is the subject moved by a similarity      *)
(* (scaled by a about the origin, then shifted by b), every keypoint with  *)
(* the same score, some keypoints missing; PoseNet names the keypoints of  *)
(* the mirrored image, which flipPose undoes.                              *)

flipName(n) ==
  CASE n = "leftHip" -> "rightHip"            [] n = "rightHip" -> "leftHip"
    [] n = "leftWrist" -> "rightWrist"        [] n = "rightWrist" -> "leftWrist"
    [] n = "leftElbow" -> "rightElbow"        [] n = "rightElbow" -> "leftElbow"
    [] n = "leftShoulder" -> "rightShoulder"  [] n = "rightShoulder" -> "leftShoulder"
    [] n = "leftEar" -> "rightEar"            [] n = "rightEar" -> "leftEar"
    [] OTHER -> n

\* Skeleton.flipPose(pose)
flipPose(pose) ==
  [pose EXCEPT !.keypoints = [i \in DOMAIN pose.keypoints |->
                                [pose.keypoints[i] EXCEPT !.part = flipName(pose.keypoints[i].part)]]]

\* Skeleton.toFaceFrame(faceDetection)
RECURSIVE facePositions(_, _)
facePositions(mesh, i) ==
  IF i > Len(facePartNames) THEN <<>>
  ELSE <<mesh[facePartNames[i]][1], mesh[facePartNames[i]][2]>> \o facePositions(mesh, i + 1)

toFaceFrame(faceDetection) ==
  [def |-> TRUE, positions |-> facePositions(faceDetection.scaledMesh, 1),
   faceInViewConfidence |-> faceDetection.faceInViewConfidence]

moved(m, p) == add(multiply(p, m.a), m.b)

\* The placements of the subject: at rest, shifted by (10, 10), doubled in size
Moves ==
  [Rest |-> [a |-> One, b |-> IPt(0, 0)],
   Shift |-> [a |-> One, b |-> IPt(10, 10)],
   Grow |-> [a |-> Num(2), b |-> IPt(0, 0)]]

RECURSIVE keypointsFrom(_, _, _, _)
keypointsFrom(m, c, missing, i) ==
  IF i > Len(posePartNames) THEN <<>>
  ELSE (IF posePartNames[i] \in missing THEN <<>>
        ELSE <<[part |-> flipName(posePartNames[i]),
                position |-> moved(m, subject[posePartNames[i]]), score |-> c]>>)
       \o keypointsFrom(m, c, missing, i + 1)

\* poses[0] of posenetNet.estimatePoses
PoseOf(score, m, c, missing) ==
  [def |-> TRUE, score |-> score, keypoints |-> keypointsFrom(m, c, missing, 1)]

NoPose == [def |-> FALSE, score |-> Undefined, keypoints |-> <<>>]

\* face[0] of facemeshNet.estimateFaces
FaceOf(m, conf) ==
  [def |-> TRUE,
   scaledMesh |-> [n \in Range(facePartNames) |->
                     <<moved(m, subject[n]).x, moved(m, subject[n]).y>>],
   faceInViewConfidence |-> conf]

NoFace == [def |-> FALSE, scaledMesh |-> <<>>, faceInViewConfidence |-> Undefined]

\* What getSkeleton(input) may resolve to in one frame: whole poses in each
\* placement and keypoint score, a pose under and one at MIN_POSE_SCORE, poses
\* with one keypoint absent, frames with no face or a face at MIN_FACE_SCORE,
\* and no pose at all.
SkeletonDatas ==
  {[pose |-> PoseOf(R(1, 2), m, R(4, 5), {}), face |-> FaceOf(m, R(9, 10))] : m \in Range(Moves)}
  \cup {[pose |-> PoseOf(R(1, 2), Moves.Shift, R(1, 5), {}), face |-> FaceOf(Moves.Shift, R(9, 10))],
        [pose |-> PoseOf(R(1, 2), Moves.Rest, Zero, {}), face |-> FaceOf(Moves.Rest, R(9, 10))],
        [pose |-> PoseOf(R(1, 2), Moves.Shift, R(4, 5), {}), face |-> FaceOf(Moves.Shift, R(8, 10))],
        [pose |-> PoseOf(R(1, 2), Moves.Shift, R(4, 5), {}), face |-> NoFace],
        [pose |-> PoseOf(R(1, 20), Moves.Rest, R(4, 5), {}), face |-> FaceOf(Moves.Rest, R(9, 10))],
        [pose |-> PoseOf(R(1, 10), Moves.Shift, R(4, 5), {}), face |-> FaceOf(Moves.Shift, R(9, 10))],
        [pose |-> NoPose, face |-> FaceOf(Moves.Rest, R(9, 10))]}
  \cup {[pose |-> PoseOf(R(1, 2), Moves.Rest, R(4, 5), {n}), face |-> FaceOf(Moves.Rest, R(9, 10))]
         : n \in {"leftWrist", "leftHip", "rightHip", "leftEar", "rightEar"}}

\* The lengths the update takes are those of the body bones and of the ear pair.
\* A frame is in the model's range when each of them lies along an axis (or is
\* NaN), where Math.sqrt is exact.
AlongAxis(p, q) ==
  \/ ~p.has \/ ~q.has
  \/ IsNaN(p.position.x) \/ IsNaN(q.position.x)
  \/ p.position.x = q.position.x \/ p.position.y = q.position.y

InRange(s) ==
  /\ \A i \in DOMAIN s.bodyBones :
        AlongAxis(s.parts[s.bodyBones[i].kp0], s.parts[s.bodyBones[i].kp1])
  /\ AlongAxis(s.parts["leftEar"], s.parts["rightEar"])

-----------------------------------------------------------------------------
(* The page (part_000): the peer's connections and the camera.  page holds *)
(* the module's variables and what the browser keeps for it.  Streams are  *)
(* numbered by the getUserMedia request that produced them, 0 being the    *)
(* falsy value (undefined or null); a caller of getMediaStream is          *)
(* <<"load", "">>, <<"call", P>> or <<"connect", P>>, and got[c] is what   *)
(* its promise resolved to (Pending while it has not).                     *)

\* The other peers of the session
Peers == {"p1"}

Pending == -1

\* The page before DOMContentLoaded: mediaStream undefined, peerCanvases = {},
\* no connection, nothing requested.  conn[P] is "none", "registered" (the
\* handlers of connectionOpened are attached) or "open"; loading[P] is whether
\* the open handler is suspended in await parseSVG("boy"); lastDraw is the
\* last call of drawSkeleton by a data handler.
newPage ==
  [loaded |-> FALSE,
   mediaStream |-> 0,
   requests |-> 0,
   request |-> [c \in {} |-> 0],
   got |-> [c \in {} |-> 0],
   srcObject |-> 0,
   metadataPending |-> FALSE,
   setUps |-> 0,
   conn |-> [P \in Peers |-> "none"],
   loading |-> [P \in Peers |-> FALSE],
   peerCanvases |-> [P \in Peers |-> FALSE],
   lastDraw |-> [peer |-> "", illustration |-> FALSE]]

-----------------------------------------------------------------------------
(* The frame driver.  driver names the revision of the driver that runs:   *)
(* "svgUtils" is detectAndDrawPose/drawSkeleton, "posenet" is              *)
(* detectPoseInRealTime.  pc is where poseDetectionFrame stands:           *)
(* "scheduled" (requestAnimationFrame pending), "awaiting" (suspended in   *)
(* the estimation) or "dead" (an exception ended the cycle before it       *)
(* scheduled the next one).  canvas is paper.project's active layer.       *)

MaxFrames == 2

speed == 40

\* skeletonData.skeleton before the first estimation
NoData == [pose |-> NoPose, face |-> NoFace]

Init ==
  /\ skeleton = newSkeleton
  /\ paths = newPaths
  /\ drawData = [skeleton |-> NoData, position |-> IPt(600, 600), destination |-> UndefPt]
  /\ canvas = <<>>
  /\ pc = "scheduled"
  /\ threw = FALSE
  /\ frames = 0
  /\ driver \in {"svgUtils", "posenet"}
  /\ arg = <<>>
  /\ ret = <<>>
  /\ page = newPage

\* poseDetectionFrame entered again while a cycle is still suspended
BeginAnytime ==
  /\ pc \in {"scheduled", "awaiting"}
  /\ frames < MaxFrames
  /\ pc' = "awaiting"
  /\ frames' = frames + 1
  /\ UNCHANGED <<skeleton, paths, drawData, canvas, threw, driver, arg, ret, page>>

\* poseDetectionFrame is entered and suspends in await getSkeleton(inputVideo).
Begin ==
  /\ pc = "scheduled"
  /\ frames < MaxFrames
  /\ pc' = "awaiting"
  /\ frames' = frames + 1
  /\ UNCHANGED <<skeleton, paths, drawData, canvas, threw, driver, arg, ret, page>>

\* drawSkeleton stepping also when the destination is exactly speed away
steppedInclusive(data) ==
  IF data.destination # UndefPt /\ RLe(Num(speed), length(subtract(data.position, data.destination)))
  THEN add(data.position,
           multiply(normalize(subtract(data.destination, data.position)), Num(speed)))
  ELSE data.position

\* drawSkeleton's step toward the destination: the new skeletonData.position
stepped(data) ==
  IF data.destination # UndefPt /\ RLt(Num(speed), length(subtract(data.position, data.destination)))
  THEN add(data.position,
           multiply(normalize(subtract(data.destination, data.position)), Num(speed)))
  ELSE data.position

\* drawSkeleton from "const group" on, u being what updateSkeleton left;
\* group.position = position throws on the undefined that draw() returns for
\* an invalid skeleton.
place(data, u) ==
  IF u.threw
  THEN [s |-> u.s, paths |-> u.paths, position |-> data.position, canvas |-> <<>>, threw |-> TRUE]
  ELSE IF ~draw(u.s, u.paths).def
  THEN [s |-> u.s, paths |-> u.paths, position |-> stepped(data), canvas |-> <<>>, threw |-> TRUE]
  ELSE [s |-> u.s, paths |-> u.paths, position |-> stepped(data),
        canvas |-> <<[draw(u.s, u.paths) EXCEPT !.position = data.position]>>, threw |-> FALSE]

\* drawSkeleton(skeletonData) of svgUtils.ts after paper.project.clear(): the
\* skeleton, paths, skeletonData.position and active layer it leaves, and
\* whether it threw.
drawSkeleton(s, ps, data, sd) ==
  IF ~sd.pose.def
  THEN [s |-> s, paths |-> ps, position |-> data.position, canvas |-> <<>>, threw |-> FALSE]
  ELSE place(data,
             IF sd.face.def
             THEN updateSkeleton(s, ps, flipPose(sd.pose), toFaceFrame(sd.face))
             ELSE [s |-> s, paths |-> ps, threw |-> FALSE])

\* The estimation resolves to sd and poseDetectionFrame of svgUtils.ts runs to
\* its end: clear, drawSkeleton, requestAnimationFrame.
ResumeSvgUtils(sd) ==
  /\ pc = "awaiting"
  /\ driver = "svgUtils"
  /\ \E r \in {x \in {drawSkeleton(skeleton, paths, drawData, sd)} : InRange(x.s)} :
         /\ skeleton' = r.s
         /\ paths' = r.paths
         /\ drawData' = [drawData EXCEPT !.skeleton = sd, !.position = r.position]
         /\ canvas' = r.canvas
         /\ threw' = r.threw
         /\ pc' = IF r.threw THEN "dead" ELSE "scheduled"
  /\ UNCHANGED <<frames, driver, arg, ret, page>>

\* posenet.ts's poseDetectionFrame from illustration.draw on, u being what
\* updateSkeleton left
drawn(u) ==
  [s |-> u.s, paths |-> u.paths, threw |-> u.threw,
   canvas |-> IF ~u.threw /\ draw(u.s, u.paths).def THEN <<draw(u.s, u.paths)>> ELSE <<>>]

\* One cycle of posenet.ts's poseDetectionFrame after the estimation resolved
\* to sd: the skeleton, paths and active layer it leaves, and whether it threw.
detectPoseInRealTime(s, ps, sd) ==
  IF ~sd.pose.def THEN [s |-> s, paths |-> ps, canvas |-> <<>>, threw |-> FALSE]
  ELSE drawn(updateSkeleton(s, ps, flipPose(sd.pose),
                            IF sd.face.def THEN toFaceFrame(sd.face)
                            ELSE [def |-> FALSE, positions |-> <<>>,
                                  faceInViewConfidence |-> Undefined]))

\* The estimation resolves to sd and poseDetectionFrame of posenet.ts runs to
\* its end.
ResumePosenet(sd) ==
  /\ pc = "awaiting"
  /\ driver = "posenet"
  /\ \E r \in {x \in {detectPoseInRealTime(skeleton, paths, sd)} : InRange(x.s)} :
         /\ skeleton' = r.s
         /\ paths' = r.paths
         /\ canvas' = r.canvas
         /\ threw' = r.threw
         /\ pc' = IF r.threw THEN "dead" ELSE "scheduled"
  /\ drawData' = [drawData EXCEPT !.skeleton = sd]
  /\ UNCHANGED <<frames, driver, arg, ret, page>>

\* tool.onMouseDown / tool.onMouseDrag of setupCanvas
MouseDown(point) ==
  /\ driver = "svgUtils"
  /\ drawData' = [drawData EXCEPT !.destination = point]
  /\ UNCHANGED <<skeleton, paths, canvas, pc, threw, frames, driver, arg, ret, page>>

Next ==
  \/ Begin
  \/ \E sd \in SkeletonDatas : ResumeSvgUtils(sd)
  \/ \E sd \in SkeletonDatas : ResumePosenet(sd)
  \/ \E point \in {IPt(720, 760), IPt(612, 616), IPt(624, 632)} : MouseDown(point)

Spec == Init /\ [][Next]_vars

-----------------------------------------------------------------------------
(* The page's handlers: DOMContentLoaded, the peer's events, the camera's  *)
(* answers and the connections' events, each up to its next await.         *)

\* getMediaStream() called by c, up to its return or to its suspension in
\* await navigator.mediaDevices.getUserMedia
getMediaStream(pg, c) ==
  IF pg.mediaStream # 0
  THEN [pg EXCEPT !.got = (c :> pg.mediaStream) @@ @]
  ELSE [pg EXCEPT !.requests = @ + 1,
                  !.request = (c :> pg.requests + 1) @@ @,
                  !.got = (c :> Pending) @@ @]

\* window's DOMContentLoaded listener: getMediaStream(), new Peer(), setUpPeer
DOMContentLoaded ==
  /\ ~page.loaded
  /\ page' = [getMediaStream(page, <<"load", "">>) EXCEPT !.loaded = TRUE]
  /\ UNCHANGED <<skeleton, paths, drawData, canvas, pc, threw, frames, driver, arg, ret>>

\* connection.on("peerConnected") for another peer's id: connectToPeer(P) up to
\* its await, connectionOpened(dataConn) included
connectToPeer(P) ==
  /\ page.loaded
  /\ page.conn[P] = "none"
  /\ <<"connect", P>> \notin DOMAIN page.got
  /\ page' = [getMediaStream(page, <<"connect", P>>) EXCEPT !.conn[P] = "registered"]
  /\ UNCHANGED <<skeleton, paths, drawData, canvas, pc, threw, frames, driver, arg, ret>>

\* peer.on("connection", connectionOpened): P connects to this page
connectionOpened(P) ==
  /\ page.loaded
  /\ page.conn[P] = "none"
  /\ page' = [page EXCEPT !.conn[P] = "registered"]
  /\ UNCHANGED <<skeleton, paths, drawData, canvas, pc, threw, frames, driver, arg, ret>>

\* peer.on("call") up to its await getMediaStream()
onCall(P) ==
  /\ page.loaded
  /\ <<"call", P>> \notin DOMAIN page.got
  /\ page' = getMediaStream(page, <<"call", P>>)
  /\ UNCHANGED <<skeleton, paths, drawData, canvas, pc, threw, frames, driver, arg, ret>>

\* getUserMedia resolves for caller c and getMediaStream runs to its return:
\* video.srcObject, video.onloadedmetadata, mediaStream = stream
getUserMediaResolved(c) ==
  /\ c \in DOMAIN page.got
  /\ page.got[c] = Pending
  /\ page' = [page EXCEPT !.srcObject = page.request[c],
                          !.metadataPending = TRUE,
                          !.mediaStream = page.request[c],
                          !.got[c] = page.request[c]]
  /\ UNCHANGED <<skeleton, paths, drawData, canvas, pc, threw, frames, driver, arg, ret>>

\* getUserMedia rejects for caller c: the catch, then mediaStream = null
getUserMediaRejected(c) ==
  /\ c \in DOMAIN page.got
  /\ page.got[c] = Pending
  /\ page' = [page EXCEPT !.mediaStream = 0, !.got[c] = 0]
  /\ UNCHANGED <<skeleton, paths, drawData, canvas, pc, threw, frames, driver, arg, ret>>

\* video.onloadedmetadata: video.play() and setUpPosenet
onloadedmetadata ==
  /\ page.metadataPending
  /\ page' = [page EXCEPT !.metadataPending = FALSE, !.setUps = @ + 1]
  /\ UNCHANGED <<skeleton, paths, drawData, canvas, pc, threw, frames, driver, arg, ret>>

\* conn.on("open") up to its await parseSVG("boy")
onOpen(P) ==
  /\ page.conn[P] = "registered"
  /\ page' = [page EXCEPT !.conn[P] = "open", !.loading[P] = TRUE]
  /\ UNCHANGED <<skeleton, paths, drawData, canvas, pc, threw, frames, driver, arg, ret>>

\* parseSVG resolves and the open handler ends: peerCanvases[conn.peer] = illustration
parseSVGResolved(P) ==
  /\ page.loading[P]
  /\ page' = [page EXCEPT !.loading[P] = FALSE, !.peerCanvases[P] = TRUE]
  /\ UNCHANGED <<skeleton, paths, drawData, canvas, pc, threw, frames, driver, arg, ret>>

\* conn.on("data"): a message of P on its open connection;
\* skeleton.illustration = peerCanvases[conn.peer], drawSkeleton(skeleton)
onPeerData(P) ==
  /\ page.conn[P] = "open"
  /\ page' = [page EXCEPT !.lastDraw = [peer |-> P, illustration |-> page.peerCanvases[P]]]
  /\ UNCHANGED <<skeleton, paths, drawData, canvas, pc, threw, frames, driver, arg, ret>>

NextPage ==
  \/ DOMContentLoaded
  \/ \E P \in Peers : connectToPeer(P)
  \/ \E P \in Peers : connectionOpened(P)
  \/ \E P \in Peers : onCall(P)
  \/ \E c \in DOMAIN page.got : getUserMediaResolved(c)
  \/ \E c \in DOMAIN page.got : getUserMediaRejected(c)
  \/ onloadedmetadata
  \/ \E P \in Peers : onOpen(P)
  \/ \E P \in Peers : parseSVGResolved(P)
  \/ \E P \in Peers : onPeerData(P)

\* The page's events alone, from the state after construction
SpecPage == Init /\ [][NextPage]_vars

-----------------------------------------------------------------------------
(* Peer payloads.  A payload is what JSON.parse made of a peer's message:  *)
(* skeleton is <<>> when the field is absent and <<sd>> otherwise;         *)
(* position and destination are <<>> when absent and otherwise the array   *)
(* <<typeTag, x, y>> that JSON.stringify made of a paper.Point.            *)

\* receivedData reading the array's coordinates in the wrong order
receivedDataSwapped(newData) ==
  [handed |-> newData.skeleton # <<>>,
   skeleton |-> newData.skeleton,
   position |-> IF newData.position = <<>> THEN UndefPt
                ELSE Pt(newData.position[3], newData.position[2]),
   destination |-> IF newData.destination = <<>> THEN UndefPt
                   ELSE Pt(newData.destination[3], newData.destination[2])]

\* receivedData(peerId, data) of index.ts after JSON.parse: whether updatePeer
\* was called and the skeletonDiff it was called with (an absent position or
\* destination is the undefined point).
receivedData(newData) ==
  [handed |-> newData.skeleton # <<>>,
   skeleton |-> newData.skeleton,
   position |-> IF newData.position = <<>> THEN UndefPt
                ELSE Pt(newData.position[2], newData.position[3]),
   destination |-> IF newData.destination = <<>> THEN UndefPt
                   ELSE Pt(newData.destination[2], newData.destination[3])]

\* The "data" handler of connectionOpened, parsed being JSON.parse(data): the skeleton data
\* it calls drawSkeleton with, whatever the payload holds.
onData(parsed) ==
  [handed |-> TRUE,
   skeleton |-> parsed.skeleton,
   position |-> IF parsed.position = <<>> THEN UndefPt
                ELSE Pt(parsed.position[2], parsed.position[3]),
   destination |-> IF parsed.destination = <<>> THEN UndefPt
                   ELSE Pt(parsed.destination[2], parsed.destination[3])]

-----------------------------------------------------------------------------
(* The binder's and the bones' functions on their own: Init draws a call   *)
(* (arg) and the skeleton it is made on, the action for the function       *)
(* called stores what it returns (ret).                                    *)

\* Points on and off the bones at rest
Points ==
  {IPt(70, 0), IPt(20, 30), IPt(20, 40), IPt(46, 200), IPt(40, 30), IPt(20, 0),
   IPt(-50, -10), IPt(20, -24), IPt(38, -28), IPt(36, -28)}

allBones == newSkeleton.bones \o newSkeleton.secondaryBones

\* The skeleton as constructed and after one update with a whole pose and its
\* face: in each placement, with every keypoint and landmark estimated at the
\* one point (20, 20), and the same with the left wrist at confidence 0
Skeletons ==
  {newSkeleton}
  \cup {update(newSkeleton, flipPose(PoseOf(R(1, 2), m, R(4, 5), {})),
                toFaceFrame(FaceOf(m, R(9, 10)))).s
          : m \in Range(Moves) \cup {[a |-> Zero, b |-> IPt(20, 20)]}}
  \cup {update(newSkeleton,
                flipPose([pose EXCEPT !.keypoints =
                            [i \in DOMAIN pose.keypoints |->
                               IF pose.keypoints[i].part = "leftWrist"
                               THEN [pose.keypoints[i] EXCEPT !.score = Zero]
                               ELSE pose.keypoints[i]]]),
                toFaceFrame(FaceOf([a |-> Zero, b |-> IPt(20, 20)], R(9, 10)))).s
          : pose \in {PoseOf(R(1, 2), [a |-> Zero, b |-> IPt(20, 20)], R(4, 5), {})}}

Calls ==
  [op : {"getWeights"}, point : Points,
   bones : {<<>>} \cup {<<allBones[i]>> : i \in DOMAIN allBones}]
  \cup {[op |-> "getWeights", point |-> p, bones |-> findBoneGroup(newSkeleton, p)]
         : p \in {IPt(70, 0), IPt(20, 30), IPt(20, 40), IPt(46, 200), IPt(40, 30), IPt(20, 0),
                  IPt(26, 36)}}
  \cup [op : {"findBoneGroup"}, point : Points \cup {IPt(20, 100), IPt(40, 0), IPt(20, -10)}]
  \cup {[op |-> "construct", present |-> DOMAIN position \ lacking]
         : lacking \in {l \in SUBSET DOMAIN position : Cardinality(l) <= 2}}
  \cup [op : {"receivedData"}, handler : {"receivedData", "onData"},
        data : [skeleton : {<<>>, <<NoData>>},
                position : {<<>>, <<"Point", Num(600), Num(600)>>, <<"Point", Num(640), Num(570)>>},
                destination : {<<>>, <<"Point", Num(720), Num(760)>>}]]
  \cup [op : {"transform"}, bone : Range(allBones), p : Points]
  \cup [op : {"transformFunc"}, p0 : {IPt(32, -36)}, p1 : {IPt(8, -36), IPt(32, -36)},
        p : {IPt(20, -20), IPt(32, -36)},
        p0New : {IPt(42, -26), IPt(0, 0)}, p1New : {IPt(18, -26), IPt(42, -26), IPt(0, 0)}]
  \cup [op : {"bindPathToBones"}, path : Range(illustrationPaths \o auxPaths),
        selectedBones : {NoBones, [def |-> TRUE, bones |-> newSkeleton.secondaryBones],
                         [def |-> TRUE, bones |-> newSkeleton.boneGroups.leftArm]}]
  \cup [op : {"getCurrentPosition"},
        point : Points \cup {divide(add(allBones[i].p0, allBones[i].p1), Num(2))
                               : i \in DOMAIN allBones},
        bones : {<<>>} \cup {<<allBones[i]>> : i \in DOMAIN allBones}]

InitFn ==
  /\ skeleton \in Skeletons
  /\ paths = newPaths
  /\ drawData = [skeleton |-> NoData, position |-> IPt(600, 600), destination |-> UndefPt]
  /\ canvas = <<>>
  /\ pc = "call"
  /\ threw = FALSE
  /\ frames = 0
  /\ driver = "svgUtils"
  /\ arg \in Calls
  /\ ret = <<>>
  /\ page = newPage

Return(value) ==
  /\ ret' = value
  /\ pc' = "returned"
  /\ UNCHANGED <<skeleton, paths, drawData, canvas, threw, frames, driver, arg, page>>

\* PoseIllustration.getWeights(point, bones)
CallGetWeights ==
  /\ pc = "call"
  /\ arg.op = "getWeights"
  /\ Return(getWeights(arg.point, arg.bones))

\* Skeleton.findBoneGroup(point)
CallFindBoneGroup ==
  /\ pc = "call"
  /\ arg.op = "findBoneGroup"
  /\ Return(findBoneGroup(skeleton, arg.point))

\* new Skeleton(scope)
CallConstruct ==
  /\ pc = "call"
  /\ arg.op = "construct"
  /\ Return(construct(arg.present))

\* A peer's payload arrives at one of the two data handlers
CallReceivedData ==
  /\ pc = "call"
  /\ arg.op = "receivedData"
  /\ Return(IF arg.handler = "onData" THEN onData(arg.data) ELSE receivedData(arg.data))

\* bone.transform(bone.getPointTransform(p))
CallTransform ==
  /\ pc = "call"
  /\ arg.op = "transform"
  /\ Return(transform(skeleton, arg.bone, getPointTransform(arg.bone, arg.p)))

\* MathUtils.getTransformFunc(p0, p1, p)(p0New, p1New)
CallTransformFunc ==
  /\ pc = "call"
  /\ arg.op = "transformFunc"
  /\ Return(applyTransformFunc(getTransformFunc(arg.p0, arg.p1, arg.p), arg.p0New, arg.p1New))

\* PoseIllustration.bindPathToBones(path, selectedBones): the path pushed
CallBindPathToBones ==
  /\ pc = "call"
  /\ arg.op = "bindPathToBones"
  /\ Return(bindPathToBones(skeleton, arg.path, arg.selectedBones))

\* A point bound to the bones given (getWeights, getSkinning), then
\* Skeleton.getCurrentPosition of it
CallGetCurrentPosition ==
  /\ pc = "call"
  /\ arg.op = "getCurrentPosition"
  /\ Return(reposition(skeleton, getSkinning(arg.point, getWeights(arg.point, arg.bones))))

NextFn ==
  \/ CallGetWeights
  \/ CallFindBoneGroup
  \/ CallConstruct
  \/ CallReceivedData
  \/ CallTransform
  \/ CallTransformFunc
  \/ CallBindPathToBones
  \/ CallGetCurrentPosition

SpecFn == InitFn /\ [][NextFn]_vars

-----------------------------------------------------------------------------
(* Properties of the frame cycle (Spec).  drawData.skeleton is the frame   *)
(* the last cycle was resolved with, so a step that leaves "awaiting" is   *)
(* one cycle and drawData'.skeleton its input.                             *)

\* A step in which poseDetectionFrame resumed and called
\* illustration.updateSkeleton, and with it Skeleton.update
updateCalled ==
  /\ pc = "awaiting"
  /\ pc' # "awaiting"
  /\ drawData'.skeleton.pose.def
  /\ (driver = "posenet" \/ drawData'.skeleton.face.def)

\* C1: Skeleton.update called with a pose whose overall score is below
\* MIN_POSE_SCORE (0.1) leaves isValid false and leaves every entry of parts as
\* it was (none added, removed or changed), whatever the skeleton was before
\* and whatever the face estimate is.
C1_LowScoreLeavesParts ==
  [][(updateCalled /\ RLt(drawData'.skeleton.pose.score, MIN_POSE_SCORE))
       => (~skeleton'.isValid /\ skeleton'.parts = skeleton.parts)]_vars

\* A second cycle resolved with a pose of score 0.05 after a first one had
\* filled parts: the skeleton is invalid and parts still holds the hip.
C1_Witness ==
  /\ frames = 2
  /\ pc # "awaiting"
  /\ drawData.skeleton.pose.def
  /\ drawData.skeleton.pose.score = R(1, 20)
  /\ ~skeleton.isValid
  /\ skeleton.parts["leftHip"].has
  /\ skeleton.currentBodyScale # Undefined

\* C2: in a frame cycle whose pose is invalid (pose score below 0.1, or a
\* required keypoint missing, or a skeleton that is not valid after it), the
\* frame is marked invalid, nothing is drawn over the previously rendered
\* geometry, which stays on the canvas, and the cycle raises no error.
C2_InvalidFrameFrozen ==
  [][(/\ pc = "awaiting"
      /\ pc' # "awaiting"
      /\ drawData'.skeleton.pose.def
      /\ \/ RLt(drawData'.skeleton.pose.score, MIN_POSE_SCORE)
         \/ \E n \in Range(posePartNames) :
               \A i \in DOMAIN drawData'.skeleton.pose.keypoints :
                  drawData'.skeleton.pose.keypoints[i].part # n
         \/ ~skeleton'.isValid)
       => (~skeleton'.isValid /\ canvas' = canvas /\ ~threw')]_vars

\* C3: for every pose with score >= 0.1, with any keypoints missing, and every
\* face, Skeleton.update ends with every bone's two endpoints in parts and the
\* bones refreshed from them, or with the skeleton marked invalid; it never
\* goes on to refresh a bone whose endpoint is missing from parts.
C3_BonesResolveOrInvalid ==
  [][(updateCalled /\ RLe(MIN_POSE_SCORE, drawData'.skeleton.pose.score))
       => \/ ~skeleton'.isValid
          \/ \A i \in DOMAIN skeleton'.bones :
                /\ skeleton'.parts[skeleton'.bones[i].kp0].has
                /\ skeleton'.parts[skeleton'.bones[i].kp1].has
                /\ skeleton'.cur[skeleton'.bones[i].kp0]
                     = skeleton'.parts[skeleton'.bones[i].kp0].position
                /\ skeleton'.cur[skeleton'.bones[i].kp1]
                     = skeleton'.parts[skeleton'.bones[i].kp1].position]_vars

-----------------------------------------------------------------------------
(* Properties of the binder's and the bones' functions (SpecFn)            *)

\* The call drawn by InitFn has returned
returned(op) == pc = "returned" /\ arg.op = op

\* C4: for every point and every candidate bone list given to getWeights, a
\* point lying on a candidate bone's segment (distance 0) included, the weight
\* map returned is empty or has all weights non-negative and summing to 1.
C4_WeightsNormalized ==
  returned("getWeights")
    => \/ DOMAIN ret = {}
       \/ /\ \A n \in DOMAIN ret : RLe(Zero, ret[n].value)
          /\ sumValues(ret, DOMAIN ret) = One

\* C5: a point on the midpoint of a bone, bound with that bone as the only
\* candidate, gets a skinning map of exactly one entry of weight 1; once both
\* endpoints of the bone have moved by (10, 10), length and direction
\* unchanged, its recomputed position is the original point plus (10, 10).
C5_MidpointFollowsBone ==
  (/\ returned("getCurrentPosition")
   /\ Len(arg.bones) = 1
   /\ arg.point = divide(add(arg.bones[1].p0, arg.bones[1].p1), Num(2))
   /\ kp0Cur(skeleton, arg.bones[1]) = add(arg.bones[1].p0, IPt(10, 10))
   /\ kp1Cur(skeleton, arg.bones[1]) = add(arg.bones[1].p1, IPt(10, 10)))
    => /\ DOMAIN ret.skinning = {arg.bones[1].name}
       /\ ret.skinning[arg.bones[1].name].weight = One
       /\ ret.currentPosition = add(arg.point, IPt(10, 10))

\* C6: a control point whose skinning map is empty (total weight 0 at bind
\* time, or no candidate bones) stays at its bind position: after a valid
\* update its currentPosition equals its bind-time position.
C6_UnboundPointStays ==
  (returned("getCurrentPosition") /\ skeleton.isValid /\ DOMAIN ret.skinning = {})
    => ret.currentPosition = ret.position

\* The scale Bone.transform applies to a bone of skeleton s
scaleOf(s, bone) ==
  IF (IF bone.type = "face" THEN s.currentFaceScale ELSE s.currentBodyScale) = Undefined THEN One
  ELSE IF bone.type = "face" THEN s.currentFaceScale ELSE s.currentBodyScale

\* C7: for every bone (each has distinct endpoints) and every point p,
\* bone.transform(bone.getPointTransform(p)) evaluated while the bone's current
\* endpoints are its rest endpoints and the scale is 1 or undefined returns p,
\* whether p projects inside the segment or is clamped to an endpoint.
C7_RoundTripAtRest ==
  (returned("transform") /\ kp0Cur(skeleton, arg.bone) = arg.bone.p0
  /\ kp1Cur(skeleton, arg.bone) = arg.bone.p1 /\ scaleOf(skeleton, arg.bone) = One)
    => ret = arg.p

\* The point (-50, -10), whose projection on the left forearm is clamped to
\* the elbow, comes back from the round trip on a skeleton updated at rest.
C7_Witness ==
  /\ returned("transform")
  /\ arg.bone.name = "leftElbow-leftWrist"
  /\ arg.p = IPt(-50, -10)
  /\ getClosestPointOnSegment(arg.bone.p0, arg.bone.p1, arg.p) = arg.bone.p0
  /\ skeleton.isValid
  /\ skeleton.currentBodyScale = One
  /\ kp0Cur(skeleton, arg.bone) = arg.bone.p0
  /\ kp1Cur(skeleton, arg.bone) = arg.bone.p1
  /\ ret = arg.p

\* The bone's direction in skeleton s is its direction at rest
sameDirection(s, bone) ==
  normalize(subtract(kp1Cur(s, bone), kp0Cur(s, bone))) = normalize(subtract(bone.p1, bone.p0))

\* k: the bone's current length over its length at rest
stretch(s, bone) ==
  RDiv(length(subtract(kp1Cur(s, bone), kp0Cur(s, bone))), length(subtract(bone.p1, bone.p0)))

\* The anchor Bone.transform starts from
anchorOf(s, bone, t) ==
  add(multiply(kp0Cur(s, bone), RSub(One, t.anchorPerc)), multiply(kp1Cur(s, bone), t.anchorPerc))

\* p's offset from its closest point on the bone at bind time
bindOffset(bone, p) == subtract(p, getClosestPointOnSegment(bone.p0, bone.p1, p))

\* C8 as stated: when the bone a point is bound to has its length multiplied
\* by k with its direction preserved, the reconstructed point's offset from
\* its anchor is the bind-time offset times k, whatever the other bones do.
C8_OffsetScalesWithBone ==
  (returned("transform") /\ sameDirection(skeleton, arg.bone))
    => subtract(ret, anchorOf(skeleton, arg.bone, getPointTransform(arg.bone, arg.p)))
         = multiply(bindOffset(arg.bone, arg.p), stretch(skeleton, arg.bone))

\* C8 amended: when the bone keeps its direction, the reconstructed point's
\* offset from its anchor is the bind-time offset times the skeleton-wide
\* scale of the bone's type (currentFaceScale or currentBodyScale: total
\* current length of the face or body bones over their total length at rest,
\* 1 while undefined), not the bone's own stretch.
C8_OffsetScalesWithSkeleton ==
  (returned("transform") /\ sameDirection(skeleton, arg.bone))
    => subtract(ret, anchorOf(skeleton, arg.bone, getPointTransform(arg.bone, arg.p)))
         = multiply(bindOffset(arg.bone, arg.p), scaleOf(skeleton, arg.bone))

\* The upper left arm doubled in length while the body scale is 24/17: a
\* point bound 30 under it is reconstructed 30 * 24/17 under its anchor.
C8_Witness ==
  /\ returned("transform")
  /\ arg.bone.name = "leftShoulder-leftElbow"
  /\ arg.p = IPt(40, 30)
  /\ sameDirection(skeleton, arg.bone)
  /\ stretch(skeleton, arg.bone) = Num(2)
  /\ skeleton.currentBodyScale = R(24, 17)
  /\ ret = add(kp0Cur(skeleton, arg.bone), multiply(IPt(0, 30), R(24, 17)))

\* The weight per bone of a skinning
weightsOf(sk) == [n \in DOMAIN sk.skinning |-> sk.skinning[n].weight]

\* C9: in bindPathToBones, for every segment whose in-handle and out-handle
\* are collinear, the skinning of both handles has the same bone set and the
\* same weight per bone as the skinning of the segment's anchor point.
C9_CollinearHandlesShareWeights ==
  returned("bindPathToBones")
    => \A i \in DOMAIN arg.path.segments :
          isCollinear(arg.path.segments[i].handleIn, arg.path.segments[i].handleOut)
            => /\ weightsOf(ret.segments[i].handleIn) = weightsOf(ret.segments[i].point)
               /\ weightsOf(ret.segments[i].handleOut) = weightsOf(ret.segments[i].point)

\* A path with a collinear handle pair bound to the left arm: the in-handle
\* carries the anchor's weights, which are not the weights the handle's own
\* position would get.
C9_Witness ==
  /\ returned("bindPathToBones")
  /\ arg.selectedBones.def
  /\ Len(arg.selectedBones.bones) = 2
  /\ isCollinear(arg.path.segments[1].handleIn, arg.path.segments[1].handleOut)
  /\ weightsOf(ret.segments[1].handleIn) = weightsOf(ret.segments[1].point)
  /\ weightsOf(ret.segments[1].handleIn)
       # weightsOf(getSkinning(ret.segments[1].handleIn.position,
                               getWeights(ret.segments[1].handleIn.position,
                                          arg.selectedBones.bones)))

-----------------------------------------------------------------------------
(* Properties of the frame cycle (Spec), continued                         *)

\* What the frame's pose holds for part n once flipPose has run
observed(sd, n) == getPartFromPose(flipPose(sd.pose), n)

\* (c_old * pos_old + c_new * pos_new) / (c_old + c_new)
fusedPosition(old, new) ==
  divide(add(multiply(old.position, old.score), multiply(new.position, new.score)),
         RAdd(old.score, new.score))

\* (c_old * c_old + c_new * c_new) / (c_old + c_new)
fusedScore(old, new) ==
  RDiv(RAdd(RMul(old.score, old.score), RMul(new.score, new.score)), RAdd(old.score, new.score))

\* C10: for each tracked body part with a stored entry (pos_old, c_old), an
\* update that passes the gate with observation (pos_new, c_new) stores the
\* position (c_old*pos_old + c_new*pos_new)/(c_old + c_new) and the confidence
\* (c_old*c_old + c_new*c_new)/(c_old + c_new); stored at confidence 0.8 and
\* observed elsewhere at 0.2, the part ends strictly closer to the stored
\* position than the midpoint of the two is.
C10_FusedByConfidence ==
  [][(updateCalled /\ RLe(MIN_POSE_SCORE, drawData'.skeleton.pose.score))
       => \A n \in Range(posePartNames) :
            (skeleton.parts[n].has /\ observed(drawData'.skeleton, n).has)
              => /\ skeleton'.parts[n].position
                      = fusedPosition(skeleton.parts[n], observed(drawData'.skeleton, n))
                 /\ skeleton'.parts[n].score
                      = fusedScore(skeleton.parts[n], observed(drawData'.skeleton, n))
                 /\ (/\ skeleton.parts[n].score = R(4, 5)
                     /\ observed(drawData'.skeleton, n).score = R(1, 5)
                     /\ observed(drawData'.skeleton, n).position # skeleton.parts[n].position)
                      => RLt(getDistanceSq(skeleton'.parts[n].position, skeleton.parts[n].position),
                             getDistanceSq(divide(add(skeleton.parts[n].position,
                                                      observed(drawData'.skeleton, n).position),
                                                  Num(2)),
                                           skeleton.parts[n].position))]_vars

\* The left wrist seen at (80, 0) with confidence 0.8 and then at (90, 10) with
\* confidence 0.2 is stored at (82, 2) with confidence 0.68.
C10_Witness ==
  /\ frames = 2
  /\ pc # "awaiting"
  /\ observed(drawData.skeleton, "leftWrist") = Part(IPt(90, 10), R(1, 5))
  /\ skeleton.parts["leftWrist"] = Part(IPt(82, 2), R(17, 25))

-----------------------------------------------------------------------------
(* Properties of the binder's and the bones' functions (SpecFn), continued *)

\* C11: findBoneGroup(point) returns exactly the bones of every bone group
\* whose minimum point-to-segment distance to point is the smallest over all
\* groups: a bone is returned if and only if some bone of its group is at most
\* as far from point as every bone of every group, so groups that tie are all
\* returned and no bone of a strictly farther group is.
C11_ClosestGroupsReturned ==
  returned("findBoneGroup")
    => /\ \A k \in DOMAIN skeleton.boneGroups : \A i \in DOMAIN skeleton.boneGroups[k] :
            (\E r \in DOMAIN ret : ret[r] = skeleton.boneGroups[k][i])
              <=> \A h \in DOMAIN skeleton.boneGroups : \A j \in DOMAIN skeleton.boneGroups[h] :
                     \E c \in DOMAIN skeleton.boneGroups[k] :
                        RLe(segDistSq(skeleton.boneGroups[k][c], arg.point),
                            segDistSq(skeleton.boneGroups[h][j], arg.point))
       /\ \A r \in DOMAIN ret :
            \E k \in DOMAIN skeleton.boneGroups : \E i \in DOMAIN skeleton.boneGroups[k] :
               ret[r] = skeleton.boneGroups[k][i]
       /\ \A r, q \in DOMAIN ret : ret[r] = ret[q] => r = q

\* The point (20, 100) is 20 away from both legs and 40 from the torso: the
\* bones of the two legs are returned, and no bone of the torso.
C11_Witness ==
  /\ returned("findBoneGroup")
  /\ arg.point = IPt(20, 100)
  /\ segDistSq(skeleton.boneGroups.leftLeg[1], arg.point) = Num(400)
  /\ segDistSq(skeleton.boneGroups.rightLeg[1], arg.point) = Num(400)
  /\ segDistSq(skeleton.boneGroups.torso[3], arg.point) = Num(1600)
  /\ ret = skeleton.boneGroups.leftLeg \o skeleton.boneGroups.rightLeg

\* C12 as stated: constructing a Skeleton from an asset that lacks a required
\* keypoint throws, so that no Skeleton is made, and the error's text holds
\* the name of a missing endpoint.
C12_ErrorNamesEndpoint ==
  (returned("construct") /\ arg.present # DOMAIN position)
    => /\ ret.threw
       /\ \E n \in DOMAIN position \ arg.present :
            \E i \in 1..Len(ret.error) : \E j \in i..Len(ret.error) :
               SubSeq(ret.error, i, j) = n

\* C12 amended: constructing a Skeleton from an asset that lacks a required
\* keypoint throws, so that no Skeleton is made; the error's text ends with
\* the type (body or face) of a bone that lacks an endpoint, body whenever a
\* body bone lacks one, and holds the name of no keypoint.
C12_ErrorNamesBoneType ==
  (returned("construct") /\ arg.present # DOMAIN position)
    => /\ ret.threw
       /\ \E i \in DOMAIN allBones :
            /\ allBones[i].sec = 0
            /\ allBones[i].kp0 \notin arg.present \/ allBones[i].kp1 \notin arg.present
            /\ (\E b \in DOMAIN bodyBones :
                   bodyBones[b].kp0 \notin arg.present \/ bodyBones[b].kp1 \notin arg.present)
                 => allBones[i].type = "body"
            /\ ret.error = "Missing a bone point when constructing a bone of type "
                             \o allBones[i].type
       /\ \A n \in DOMAIN position :
            \A i \in 1..Len(ret.error) : \A j \in i..Len(ret.error) :
               SubSeq(ret.error, i, j) # n

\* The asset without leftWrist: the constructor throws the error of a body bone.
C12_Witness ==
  /\ returned("construct")
  /\ arg.present = DOMAIN position \ {"leftWrist"}
  /\ ret.threw
  /\ ret.error = "Missing a bone point when constructing a bone of type body"

-----------------------------------------------------------------------------
(* Properties of the frame cycle (Spec), continued                         *)

\* C13: a cycle is entered only from the schedule the cycle before it left
\* when it had finished (never while one is suspended), the next cycle is
\* scheduled only by the step that resumes a suspended cycle and runs its
\* update and draw to their end, and while the cycle is suspended awaiting
\* the oracle the skeleton, the skinned paths and the canvas are not touched:
\* they change only in the step that resumes the cycle.
C13_OneCycleAtATime ==
  [][/\ frames' # frames
          => (pc = "scheduled" /\ pc' = "awaiting" /\ frames' = frames + 1
              /\ skeleton' = skeleton /\ paths' = paths /\ canvas' = canvas)
     /\ (pc' = "scheduled" /\ pc # "scheduled") => (pc = "awaiting" /\ frames' = frames)
     /\ (pc = "awaiting" /\ pc' = "awaiting")
          => (skeleton' = skeleton /\ paths' = paths /\ canvas' = canvas)
     /\ (skeleton' # skeleton \/ paths' # paths \/ canvas' # canvas)
          => (pc = "awaiting" /\ pc' # "awaiting")]_vars

\* The second cycle is suspended in the estimation after the first one drew a
\* valid skeleton, and a mouse event has been handled meanwhile.
C13_Witness ==
  /\ frames = 2
  /\ pc = "awaiting"
  /\ skeleton.isValid
  /\ canvas # <<>>
  /\ drawData.destination # UndefPt

-----------------------------------------------------------------------------
(* Properties of the binder's and the bones' functions (SpecFn), continued *)

\* C14: for every payload a data handler hands on to the engine (updatePeer
\* or drawSkeleton), a position or destination field that arrived as the
\* array [typeTag, x, y] is handed on as the point (x, y), a field absent
\* from the payload is handed on absent, and what is handed on is never the
\* array.
C14_PointsReconstructed ==
  (returned("receivedData") /\ ret.handed)
    => /\ arg.data.position = <<>> => ret.position = UndefPt
       /\ arg.data.position # <<>>
            => ret.position = [x |-> arg.data.position[2], y |-> arg.data.position[3]]
       /\ arg.data.destination = <<>> => ret.destination = UndefPt
       /\ arg.data.destination # <<>>
            => ret.destination = [x |-> arg.data.destination[2], y |-> arg.data.destination[3]]
       /\ DOMAIN ret.position = {"x", "y"}
       /\ DOMAIN ret.destination = {"x", "y"}

\* receivedData is given a skeleton with the position ["Point", 640, 570] and
\* no destination: updatePeer gets the point (640, 570) and no destination.
C14_Witness ==
  /\ returned("receivedData")
  /\ arg.handler = "receivedData"
  /\ arg.data.position = <<"Point", Num(640), Num(570)>>
  /\ arg.data.destination = <<>>
  /\ ret.handed
  /\ ret.position = IPt(640, 570)
  /\ ret.destination = UndefPt

-----------------------------------------------------------------------------
(* Properties of the frame cycle (Spec), continued                         *)

\* C15: every frame cycle that resumes from the estimation, whatever the
\* frame holds (no pose, no face, a pose that leaves the skeleton invalid),
\* ends with the next cycle scheduled, so that a later frame is processed.
C15_EveryCycleReschedules ==
  [][(pc = "awaiting" /\ pc' # "awaiting") => pc' = "scheduled"]_vars

\* C16: when an update that passes the gate observes a body part that has no
\* entry in parts yet, the entry stored is the observation itself, position
\* and confidence, whatever the observed confidence in [0, 1] is.
C16_FirstObservationStored ==
  [][(updateCalled /\ RLe(MIN_POSE_SCORE, drawData'.skeleton.pose.score))
       => \A n \in Range(posePartNames) :
            (~skeleton.parts[n].has /\ observed(drawData'.skeleton, n).has)
              => skeleton'.parts[n] = observed(drawData'.skeleton, n)]_vars

\* C17: when an update passes the gate and, after the pose parts are fused,
\* parts has no leftEar or no rightEar entry, the skeleton is left invalid and
\* nothing after the pose fusion has run: no face part, no bone's current
\* endpoints, score or centre, no secondary bone, neither scale and neither
\* ear-to-face transform has changed.
C17_MissingEarStops ==
  [][(/\ updateCalled
      /\ RLe(MIN_POSE_SCORE, drawData'.skeleton.pose.score)
      /\ ~skeleton'.parts["leftEar"].has \/ ~skeleton'.parts["rightEar"].has)
       => /\ ~skeleton'.isValid
          /\ \A n \in Range(facePartNames) : skeleton'.parts[n] = skeleton.parts[n]
          /\ skeleton'.cur = skeleton.cur
          /\ skeleton'.score = skeleton.score
          /\ skeleton'.latestCenter = skeleton.latestCenter
          /\ skeleton'.sec = skeleton.sec
          /\ skeleton'.currentFaceScale = skeleton.currentFaceScale
          /\ skeleton'.currentBodyScale = skeleton.currentBodyScale
          /\ skeleton'.leftEarP2FFunc = skeleton.leftEarP2FFunc
          /\ skeleton'.rightEarP2FFunc = skeleton.rightEarP2FFunc]_vars

\* A first frame whose pose has no right ear has been processed: the hips are
\* fused and pinned the legs, there is no rightEar entry, the skeleton is
\* invalid with no face part and no scale, and the cycle went on.
C17_Witness ==
  /\ driver = "posenet"
  /\ frames = 1
  /\ pc = "scheduled"
  /\ ~threw
  /\ drawData.skeleton.pose.def
  /\ ~observed(drawData.skeleton, "rightEar").has
  /\ skeleton.parts["leftEar"].has
  /\ skeleton.parts["leftKnee"].has
  /\ ~skeleton.parts["rightEar"].has
  /\ ~skeleton.parts["nose4"].has
  /\ ~skeleton.isValid
  /\ skeleton.currentBodyScale = Undefined

\* C18: in an update that reaches the face parts with a face estimate of
\* confidence above MIN_FACE_SCORE (0.8), every face part's entry becomes the
\* estimate's landmark position with the face's confidence as its score,
\* whatever was stored, and the two ear-to-face transforms are recorded anew
\* from the pose's current ear pair and the new jaw corners; with a face of
\* confidence exactly 0.8 or less the transforms are left as they were and the
\* face parts are the inferred ones (score 1).
C18_FaceTrackedAboveThreshold ==
  [][(updateCalled /\ skeleton'.isValid /\ drawData'.skeleton.face.def)
       => /\ RLt(MIN_FACE_SCORE, drawData'.skeleton.face.faceInViewConfidence)
               => /\ \A n \in Range(facePartNames) :
                       skeleton'.parts[n]
                         = [has |-> TRUE,
                            position |-> [x |-> drawData'.skeleton.face.scaledMesh[n][1],
                                          y |-> drawData'.skeleton.face.scaledMesh[n][2]],
                            score |-> drawData'.skeleton.face.faceInViewConfidence]
                  /\ skeleton'.leftEarP2FFunc
                       = getTransformFunc(skeleton'.parts["leftEar"].position,
                                          skeleton'.parts["rightEar"].position,
                                          skeleton'.parts["leftJaw2"].position)
                  /\ skeleton'.rightEarP2FFunc
                       = getTransformFunc(skeleton'.parts["leftEar"].position,
                                          skeleton'.parts["rightEar"].position,
                                          skeleton'.parts["rightJaw2"].position)
          /\ RLe(drawData'.skeleton.face.faceInViewConfidence, MIN_FACE_SCORE)
               => /\ skeleton'.leftEarP2FFunc = skeleton.leftEarP2FFunc
                  /\ skeleton'.rightEarP2FFunc = skeleton.rightEarP2FFunc
                  /\ \A n \in Range(facePartNames) : skeleton'.parts[n].score = One]_vars

\* A second frame with the subject shifted by (10, 10) and a face of
\* confidence 0.9: the nose tip is stored where the face estimate has it, with
\* score 0.9, and the ear-to-face transforms are recorded.
C18_Witness ==
  /\ frames = 2
  /\ pc = "scheduled"
  /\ skeleton.isValid
  /\ drawData.skeleton.face.def
  /\ drawData.skeleton.face.faceInViewConfidence = R(9, 10)
  /\ drawData.skeleton.face.scaledMesh["nose4"] = <<Num(30), Num(-10)>>
  /\ skeleton.parts["nose4"] = Part(IPt(30, -10), R(9, 10))
  /\ skeleton.leftEarP2FFunc.def
  /\ skeleton.rightEarP2FFunc.def

\* C19: in an update that passes the gate with every pose part in parts and
\* with the face estimate missing or of confidence at most MIN_FACE_SCORE,
\* every endpoint of a face bone gets the entry whose position is its
\* bind-time transform (its rest position in the frame of the two jaw corners
\* at rest) applied to the reconstructed ear pair, and whose score is 1; the
\* ear pair is the recorded ear-to-face transforms applied to the pose's
\* current ears, or those ears themselves while none is recorded; the update
\* ends valid without an error.
C19_FaceInferredFromEars ==
  [][(/\ updateCalled
      /\ RLe(MIN_POSE_SCORE, drawData'.skeleton.pose.score)
      /\ \A n \in Range(posePartNames) : skeleton'.parts[n].has
      /\ \/ ~drawData'.skeleton.face.def
         \/ RLe(drawData'.skeleton.face.faceInViewConfidence, MIN_FACE_SCORE))
       => /\ skeleton'.isValid
          /\ ~threw'
          /\ \A i \in DOMAIN skeleton.faceBones :
               \A n \in {skeleton.faceBones[i].kp0, skeleton.faceBones[i].kp1} :
                  /\ skeleton'.parts[n].has
                  /\ skeleton'.parts[n].score = One
                  /\ skeleton'.parts[n].position
                       = applyTransformFunc(
                           getTransformFunc(position["leftJaw2"], position["rightJaw2"],
                                            position[n]),
                           IF skeleton.leftEarP2FFunc.def
                           THEN applyTransformFunc(skeleton.leftEarP2FFunc,
                                                   skeleton'.parts["leftEar"].position,
                                                   skeleton'.parts["rightEar"].position)
                           ELSE skeleton'.parts["leftEar"].position,
                           IF skeleton.rightEarP2FFunc.def
                           THEN applyTransformFunc(skeleton.rightEarP2FFunc,
                                                   skeleton'.parts["leftEar"].position,
                                                   skeleton'.parts["rightEar"].position)
                           ELSE skeleton'.parts["rightEar"].position)]_vars

\* A second frame without a face, the subject standing shifted by (10, 10) as
\* in the first: the nose tip is inferred at (30, -10) with score 1 through
\* the transforms the first frame recorded.
C19_Witness ==
  /\ driver = "posenet"
  /\ frames = 2
  /\ pc = "scheduled"
  /\ ~drawData.skeleton.face.def
  /\ drawData.skeleton.pose.def
  /\ skeleton.leftEarP2FFunc.def
  /\ skeleton.isValid
  /\ skeleton.parts["leftEar"].position = IPt(40, -26)
  /\ skeleton.parts["nose4"] = Part(IPt(30, -10), One)

\* C20: a cycle whose estimation resolves to a pose (at or over
\* MIN_POSE_SCORE) and no face still updates the skeleton in that cycle,
\* whichever driver runs: each body part the pose carries is fused into parts
\* (stored as observed when new, by confidence otherwise), every endpoint of
\* a face bone has an entry with the inferred score 1, the skeleton is valid,
\* and the active layer then holds the illustration drawn from it.
C20_PoseWithoutFaceUpdates ==
  [][(/\ pc = "awaiting"
      /\ pc' # "awaiting"
      /\ drawData'.skeleton.pose.def
      /\ ~drawData'.skeleton.face.def
      /\ RLe(MIN_POSE_SCORE, drawData'.skeleton.pose.score))
       => /\ \A n \in Range(posePartNames) :
               observed(drawData'.skeleton, n).has
                 => skeleton'.parts[n]
                      = IF skeleton.parts[n].has
                        THEN Part(fusedPosition(skeleton.parts[n], observed(drawData'.skeleton, n)),
                                  fusedScore(skeleton.parts[n], observed(drawData'.skeleton, n)))
                        ELSE observed(drawData'.skeleton, n)
          /\ \A i \in DOMAIN skeleton.faceBones :
               \A n \in {skeleton.faceBones[i].kp0, skeleton.faceBones[i].kp1} :
                  skeleton'.parts[n].has /\ skeleton'.parts[n].score = One
          /\ skeleton'.isValid
          /\ canvas' # <<>>]_vars

\* C21: after every update that ends valid, for every bone of the skeleton
\* each endpoint's currentPosition is the position of its entry in parts, the
\* bone's score is the average of the two entries' scores, and its
\* latestCenter is the average of the two current positions.
C21_BonesRefreshed ==
  [][(updateCalled /\ skeleton'.isValid /\ ~threw')
       => \A i \in DOMAIN skeleton.bones :
            /\ skeleton'.parts[skeleton.bones[i].kp0].has
            /\ skeleton'.parts[skeleton.bones[i].kp1].has
            /\ skeleton'.cur[skeleton.bones[i].kp0]
                 = skeleton'.parts[skeleton.bones[i].kp0].position
            /\ skeleton'.cur[skeleton.bones[i].kp1]
                 = skeleton'.parts[skeleton.bones[i].kp1].position
            /\ skeleton'.score[skeleton.bones[i].name]
                 = RDiv(RAdd(skeleton'.parts[skeleton.bones[i].kp0].score,
                             skeleton'.parts[skeleton.bones[i].kp1].score), Num(2))
            /\ skeleton'.latestCenter[skeleton.bones[i].name]
                 = divide(add(skeleton'.cur[skeleton.bones[i].kp0],
                              skeleton'.cur[skeleton.bones[i].kp1]), Num(2))]_vars

\* A second frame after which the left forearm, its elbow fused at (62, 2) and
\* its wrist at (82, 2) with score 0.68 each, has score 0.68 and centre (72, 2).
C21_Witness ==
  /\ frames = 2
  /\ pc = "scheduled"
  /\ skeleton.isValid
  /\ skeleton.parts["leftWrist"] = Part(IPt(82, 2), R(17, 25))
  /\ skeleton.cur["leftElbow"] = IPt(62, 2)
  /\ skeleton.score["leftElbow-leftWrist"] = R(17, 25)
  /\ skeleton.latestCenter["leftElbow-leftWrist"] = IPt(72, 2)

\* C22: after every update that ends valid, each secondary bone's endpoints are
\* its own transformFunc applied to the parent bone's corresponding current
\* endpoint and the current tip of the nose, both as this update left them,
\* its score is the parent's score as this update left it, and its centre is
\* the average of its two endpoints; nothing is taken from the frame before.
C22_SecondaryFollowsParent ==
  [][(updateCalled /\ skeleton'.isValid /\ ~threw')
       => \A k \in DOMAIN skeleton.secondaryBones :
            /\ skeleton'.sec[k].cur0
                 = applyTransformFunc(
                     skeleton.secondaryBones[k].transformFunc0,
                     skeleton'.parts[skeleton.bones[skeleton.secondaryBones[k].parent].kp0].position,
                     skeleton'.parts["nose4"].position)
            /\ skeleton'.sec[k].cur1
                 = applyTransformFunc(
                     skeleton.secondaryBones[k].transformFunc1,
                     skeleton'.parts[skeleton.bones[skeleton.secondaryBones[k].parent].kp1].position,
                     skeleton'.parts["nose4"].position)
            /\ skeleton'.sec[k].score
                 = RDiv(RAdd(skeleton'.parts[skeleton.bones[skeleton.secondaryBones[k].parent].kp0].score,
                             skeleton'.parts[skeleton.bones[skeleton.secondaryBones[k].parent].kp1].score),
                        Num(2))
            /\ skeleton'.sec[k].latestCenter
                 = divide(add(skeleton'.sec[k].cur0, skeleton'.sec[k].cur1), Num(2))]_vars

\* A second frame with the subject doubled in size and a face of confidence
\* 0.9: the auxiliary bone bound 4 to the left of the left jaw at rest stands
\* 8 to the left of the jaw's current place, (64, -72)-(64, -40), with the
\* jaw's score.
C22_Witness ==
  /\ frames = 2
  /\ pc = "scheduled"
  /\ skeleton.isValid
  /\ Len(skeleton.secondaryBones) = 1
  /\ skeleton.cur["leftJaw2"] = IPt(64, -72)
  /\ skeleton.sec[1] = secondaryAt(IPt(72, -72), IPt(72, -40), R(9, 10))

\* C23: at the end of every update that ends valid, currentFaceScale is the
\* sum of the face bones' lengths between this frame's parts divided by the
\* sum of their lengths in the asset, and currentBodyScale the same over the
\* body bones, whether the face parts were tracked or inferred; when every
\* bone endpoint stands where the asset has it, both are 1.
C23_ScalesFromBoneLengths ==
  [][(updateCalled /\ skeleton'.isValid /\ ~threw')
       => /\ skeleton'.currentFaceScale
               = RDiv(getTotalBoneLength(faceBones, [n \in DOMAIN position |->
                                                       skeleton'.parts[n].position]),
                      getTotalBoneLength(faceBones, position))
          /\ skeleton'.currentBodyScale
               = RDiv(getTotalBoneLength(bodyBones, [n \in DOMAIN position |->
                                                       skeleton'.parts[n].position]),
                      getTotalBoneLength(bodyBones, position))
          /\ (\A n \in DOMAIN position : skeleton'.parts[n].position = position[n])
               => /\ skeleton'.currentFaceScale = One
                  /\ skeleton'.currentBodyScale = One]_vars

\* A frame without a face after a frame with the subject doubled in size,
\* which left the body's scale at 24/17 (knees and ankles are pinned, so the
\* legs do not grow): the face parts are inferred, and the update ends with
\* the body's scale at 41/34 and the face's at 3/2.
C23_Witness ==
  /\ frames = 2
  /\ pc = "scheduled"
  /\ driver = "posenet"
  /\ ~drawData.skeleton.face.def
  /\ skeleton.isValid
  /\ skeleton.currentBodyScale = R(41, 34)
  /\ skeleton.currentFaceScale = R(3, 2)

\* C24: no step of the frame cycle changes what was set at bind time: the
\* skeleton's bones (names, endpoints, rest positions, types), face and body
\* bone lists, bone groups, secondary bones with their parents and
\* transformFuncs, bodyLen0 and faceLen0, the face keypoints' baseTransFunc,
\* and of every skinned path its fill, stroke, width, closed flag, number of
\* segments and, for each point and handle, its bind position and its
\* skinning (bones, weights, stored transforms).
C24_BindStateUnchanged ==
  [][/\ skeleton'.bones = skeleton.bones
     /\ skeleton'.faceBones = skeleton.faceBones
     /\ skeleton'.bodyBones = skeleton.bodyBones
     /\ skeleton'.bNose3Nose4 = skeleton.bNose3Nose4
     /\ skeleton'.secondaryBones = skeleton.secondaryBones
     /\ skeleton'.boneGroups = skeleton.boneGroups
     /\ skeleton'.bodyLen0 = skeleton.bodyLen0
     /\ skeleton'.faceLen0 = skeleton.faceLen0
     /\ skeleton'.baseTransFunc = skeleton.baseTransFunc
     /\ DOMAIN paths' = DOMAIN paths
     /\ \A i \in DOMAIN paths :
          /\ paths'[i].fillColor = paths[i].fillColor
          /\ paths'[i].strokeColor = paths[i].strokeColor
          /\ paths'[i].strokeWidth = paths[i].strokeWidth
          /\ paths'[i].closed = paths[i].closed
          /\ DOMAIN paths'[i].segments = DOMAIN paths[i].segments
          /\ \A j \in DOMAIN paths[i].segments :
               \A h \in {"point", "handleIn", "handleOut"} :
                  /\ paths'[i].segments[j][h].skinning = paths[i].segments[j][h].skinning
                  /\ paths'[i].segments[j][h].position = paths[i].segments[j][h].position]_vars

\* After two frames that left the skeleton valid with the subject doubled in
\* size, the first path's point has moved from (70, 0) while its bind
\* position, its skinning and the body's bind-time length are those of
\* construction.
C24_Witness ==
  /\ frames = 2
  /\ pc = "scheduled"
  /\ skeleton.isValid
  /\ skeleton.currentFaceScale = Num(2)
  /\ paths[1].segments[1].point.currentPosition # IPt(70, 0)
  /\ paths[1].segments[1].point.position = IPt(70, 0)
  /\ paths[1].segments[1].point.skinning = newPaths[1].segments[1].point.skinning
  /\ skeleton.bodyLen0 = newSkeleton.bodyLen0
  /\ skeleton.bones = newSkeleton.bones

\* C26: a call of Skeleton.update after which isValid is false (the pose
\* under MIN_POSE_SCORE, or an ear missing from parts) has changed no
\* keypoint's currentPosition, no bone's score or latestCenter, no secondary
\* bone and neither scale; the skinned paths are as the last valid frame left
\* them, and a point's position recomputed from the skeleton is what it was
\* before the call.
C26_InvalidUpdateKeepsBones ==
  [][(updateCalled /\ ~skeleton'.isValid)
       => /\ skeleton'.cur = skeleton.cur
          /\ skeleton'.score = skeleton.score
          /\ skeleton'.latestCenter = skeleton.latestCenter
          /\ skeleton'.sec = skeleton.sec
          /\ skeleton'.currentFaceScale = skeleton.currentFaceScale
          /\ skeleton'.currentBodyScale = skeleton.currentBodyScale
          /\ paths' = paths
          /\ \A i \in DOMAIN paths : \A j \in DOMAIN paths[i].segments :
               getCurrentPosition(skeleton', paths[i].segments[j].point)
                 = getCurrentPosition(skeleton, paths[i].segments[j].point)]_vars

\* A pose of score 0.05 after a valid frame with the subject doubled in size:
\* the skeleton is invalid, the face's scale is still 2 and the second path's
\* first point is still where the valid frame put it, away from (20, 30).
C26_Witness ==
  /\ frames = 2
  /\ pc = "scheduled"
  /\ driver = "posenet"
  /\ drawData.skeleton.pose.score = R(1, 20)
  /\ ~skeleton.isValid
  /\ skeleton.currentFaceScale = Num(2)
  /\ skeleton.cur["leftShoulder"] = IPt(80, 0)
  /\ paths[2].segments[1].point.currentPosition # IPt(0, 0)
  /\ paths[2].segments[1].point.currentPosition # IPt(20, 30)

\* C28: in a frame that drawSkeleton draws while a destination is set, a
\* position farther than speed (40) from the destination moves by exactly 40
\* along the straight line to it, so that its distance to the destination
\* drops by exactly 40 and it does not pass it; a position at most 40 away
\* does not change.
C28_StepTowardDestination ==
  [][(/\ driver = "svgUtils"
      /\ pc = "awaiting"
      /\ pc' = "scheduled"
      /\ drawData'.skeleton.pose.def
      /\ drawData.destination # UndefPt)
       => IF RLt(Num(speed), length(subtract(drawData.destination, drawData.position)))
          THEN /\ subtract(drawData'.position, drawData.position)
                    = multiply(subtract(drawData.destination, drawData.position),
                               RDiv(Num(speed),
                                    length(subtract(drawData.destination, drawData.position))))
               /\ getDistanceSq(drawData'.position, drawData.position) = Num(speed * speed)
               /\ length(subtract(drawData.destination, drawData'.position))
                    = RSub(length(subtract(drawData.destination, drawData.position)), Num(speed))
          ELSE drawData'.position = drawData.position]_vars

\* Two drawn frames toward (720, 760) from (600, 600), 200 away: the position
\* is (648, 664), 120 away.
C28_Witness ==
  /\ driver = "svgUtils"
  /\ frames = 2
  /\ pc = "scheduled"
  /\ canvas # <<>>
  /\ drawData.destination = IPt(720, 760)
  /\ drawData.position = IPt(648, 664)

\* C29: in an update that passes the gate, a tracked body part stored and
\* observed with positive confidences is stored after it with a confidence
\* that is neither below both nor above both of the two, at a position on the
\* segment from its previous stored position to the observation; a part seen
\* for the first time is stored as observed. By induction over the updates
\* the stored confidence stays between the least and the greatest observed
\* one and the stored position is a convex combination of the observed ones.
C29_FusionStaysBetween ==
  [][(updateCalled /\ RLe(MIN_POSE_SCORE, drawData'.skeleton.pose.score))
       => \A n \in Range(posePartNames) :
            (/\ observed(drawData'.skeleton, n).has
             /\ RLt(Zero, observed(drawData'.skeleton, n).score))
              => IF ~skeleton.parts[n].has
                 THEN skeleton'.parts[n] = observed(drawData'.skeleton, n)
                 ELSE RLt(Zero, skeleton.parts[n].score)
                        => /\ \/ RLe(skeleton.parts[n].score, skeleton'.parts[n].score)
                              \/ RLe(observed(drawData'.skeleton, n).score, skeleton'.parts[n].score)
                           /\ \/ RLe(skeleton'.parts[n].score, skeleton.parts[n].score)
                              \/ RLe(skeleton'.parts[n].score, observed(drawData'.skeleton, n).score)
                           /\ RMul(RSub(skeleton'.parts[n].position.x, skeleton.parts[n].position.x),
                                   RSub(observed(drawData'.skeleton, n).position.y,
                                        skeleton.parts[n].position.y))
                                = RMul(RSub(skeleton'.parts[n].position.y, skeleton.parts[n].position.y),
                                       RSub(observed(drawData'.skeleton, n).position.x,
                                            skeleton.parts[n].position.x))
                           /\ RLe(Zero,
                                  dot(subtract(skeleton'.parts[n].position, skeleton.parts[n].position),
                                      subtract(observed(drawData'.skeleton, n).position,
                                               skeleton'.parts[n].position)))]_vars

\* The right shoulder seen with confidence 0.2 and then elsewhere with
\* confidence 0.8 is stored strictly between the two places with a confidence
\* strictly between 0.2 and 0.8.
C29_Witness ==
  /\ frames = 2
  /\ pc # "awaiting"
  /\ skeleton.parts["rightShoulder"].has
  /\ observed(drawData.skeleton, "rightShoulder").has
  /\ observed(drawData.skeleton, "rightShoulder").score = R(4, 5)
  /\ RLt(R(1, 5), skeleton.parts["rightShoulder"].score)
  /\ RLt(skeleton.parts["rightShoulder"].score, R(4, 5))
  /\ skeleton.parts["rightShoulder"].position # observed(drawData.skeleton, "rightShoulder").position

-----------------------------------------------------------------------------
(* Properties of the binder's and the bones' functions (SpecFn), continued *)

\* C25: the function getTransformFunc returns, called with two equal points,
\* returns that point; Bone.transform of a bone whose two current endpoints
\* are one and the same (finite) point returns that point, the anchor; in
\* both cases the point returned is defined and finite.
C25_ZeroLengthGivesAnchor ==
  /\ (returned("transformFunc") /\ arg.p0New = arg.p1New) => ret = arg.p0New
  /\ (/\ returned("transform")
      /\ kp0Cur(skeleton, arg.bone) = kp1Cur(skeleton, arg.bone)
      /\ ~IsNaN(kp0Cur(skeleton, arg.bone).x)
      /\ ~IsNaN(kp0Cur(skeleton, arg.bone).y))
       => ret = kp0Cur(skeleton, arg.bone)

-----------------------------------------------------------------------------
(* Properties of the page (SpecPage)                                       *)

\* C27: whenever the data handler of the connection to a peer P has called
\* drawSkeleton, the illustration it passed was the defined illustration of
\* peerCanvases[P], however the connection's open event, the asset load it
\* starts and the incoming messages interleave.
C27_IllustrationDefinedAtDraw ==
  page.lastDraw.peer # "" => page.lastDraw.illustration

\* C30: the camera is requested at most once per page, every caller of
\* getMediaStream whose promise has resolved got the same stream, and the
\* video element and the pose pipeline were set up at most once, however the
\* calls of getMediaStream and the answers of getUserMedia interleave.
C30_CameraRequestedOnce ==
  /\ page.requests <= 1
  /\ \A c, d \in DOMAIN page.got :
        (page.got[c] # Pending /\ page.got[d] # Pending) => page.got[c] = page.got[d]
  /\ page.setUps <= 1

====
